---- MODULE Spec2Model ----
(***************************************************************************)
(* State-machine model of the agent repository: the context store          *)
(* (src/src/context.py), the chain executor (src/src/subagents and         *)
(* src/agentic/src/subagents), the skill tool filter                       *)
(* (src/src/skills/context.py) and the orchestrator loop                   *)
(* (src/src/agent.py).  Each component has its own specification; the      *)
(* variables of the other components stay at their idle values.            *)
(***************************************************************************)
EXTENDS Integers, Sequences, FiniteSets, TLC

VARIABLES
    \* ---- ContextManager (src/src/context.py) ----
    entries,            \* self.entries: the live log
    max_context_length, \* self.max_context_length
    auto_save,          \* self.auto_save
    dirty,              \* self._dirty
    last_save_time,     \* self._last_save_time (0 = never saved by this instance)
    session_file,       \* session_context.json: [exists, entries]
    goals_file,         \* goals.md: [exists, text]
    errors_file,        \* errors.md: the journal, one record per logged error
    archives,           \* archive_<second>.json files: second -> archived entries
    shared_memory,      \* self.shared_memory: key -> value
    clock,              \* source of ContextEntry.timestamp (strictly increasing)
    now,                \* wall clock in whole seconds (names the archive file)
    \* ---- history of the calls made on the store ----
    lastOp,             \* name of the last operation performed
    calls,              \* number of operations performed so far
    prevEntries,        \* the live log before the last operation
    prevArchives,       \* the archive files before the last operation
    performed,          \* names of the operations performed so far
    appended,           \* every entry ever put into the log
    skipped,            \* number of saves skipped by the debounce so far
    \* ---- ChainSubAgent.execute (subagents/chain_subagent.py) ----
    chain_pc,           \* "idle" | "ready" | "running" | "done"
    chain_command,      \* the command handed to the top-level execute
    stack,              \* the active execute calls, outermost first
    chain_result,       \* what the top-level execute returned
    invoked,            \* every SubAgent execute call made for a step
    started,            \* every step the loop of some execute reached
    failures,           \* every step that failed, with its error
    \* ---- SkillContextManager.filter_allowed_tools (skills/context.py) ----
    filter_pc,          \* "idle" | "ready" | "filtered" | "validated"
    skill_allowed_tools,\* skill.allowed_tools: a list of tool names
    tools_available,    \* the tools supplied by the caller: name -> tool
    filtered_tools,     \* what filter_allowed_tools returned
    skill_outcome,      \* what the skill executor decided on the filtered tools
    \* ---- MinimalAgent.run (agent.py) ----
    run_pc,             \* the statement of run the session is at
    step,               \* the loop variable of run
    max_steps,          \* the parameter of run
    thought,            \* the Thought returned by the last think()
    subagent_result,    \* the SubAgentResult of the last execute_subagent
    run_result,         \* what run returned
    dispatches,         \* number of SubAgents the session has dispatched
    thinks,             \* number of think() calls the session has made
    executions,         \* number of SubAgent execute() calls the session awaited
    invocations,        \* number of tool execute() calls the session awaited
    \* ---- ToolSubAgent.execute (subagents/tool_subagent.py) ----
    tool_pc,            \* "idle" | "ready" | "done"
    tool_registry,      \* self.tools: the names of the registered tools
    tool_command,       \* the command: the name of the tool to run
    tool_behaviour,     \* what the tool's execute does when it is called
    tool_result,        \* the SubAgentResult returned
    tool_invocations,   \* number of calls made to a tool's execute
    \* ---- LLMClient admission gate (agentic/src/llm.py, stream_manager.py) ----
    max_concurrent,     \* the value LLMClient._semaphore was created with
    permits,            \* the value of LLMClient._semaphore
    gate_pc,            \* caller -> position in its model call
    gate_path,          \* caller -> the entry point it calls the model through
    in_flight,          \* the callers whose model call is in flight
    \* ---- LLMClient._make_request (agentic/src/llm.py) ----
    retry_pc,           \* position in _make_request
    max_retries,        \* self.max_retries
    upstream,           \* what the upstream answers to the successive attempts
    attempt,            \* the loop variable of _make_request
    attempts_made,      \* number of requests sent to the upstream
    backoffs,           \* number of backoff sleeps made
    retry_result,       \* what _make_request returned or raised
    \* ---- shared memory of the store and its snapshots (context.py) ----
    snapshot,           \* the "shared_memory" of the last get_snapshot()
    memory_at_snapshot, \* what shared_memory held when that snapshot was taken
    memory_writes,      \* the update/clear calls made on shared memory, in order
    \* ---- SkillManager registry (skills/manager.py, loader.py, models.py) ----
    skill_dirs,         \* the skill folders on disk, per scanned directory
    registry,           \* self.registry.skills: name -> Skill
    initial_names,      \* get_skill_names() after the initial load
    reloads,            \* number of reload_skills() calls made
    disk_changes,       \* number of changes made to the directories since
    scanned_dirs,       \* the directories as the last load found them
    \* ---- SkillManager.invoke (skills/manager.py) ----
    invoke_pc,          \* "idle" | "ready" | "done"
    invoke_skills,      \* the registry: name -> Skill
    invoke_command,     \* the skill name asked for
    invoke_request,     \* the user request
    invoke_tools,       \* tools_available: name -> tool
    invoke_result,      \* the pair (context_messages, error) returned
    \* ---- the context stores of a session and of its executors ----
    iso_files,          \* the session_context.json files: path -> entries
    iso_stores,         \* every ContextManager constructed, in order
    iso_executors,      \* number of executors created so far
    \* ---- SkillManager.execute_skill (skills/manager.py) ----
    exec_pc,            \* "idle" | "start" | "loop" | "done"
    exec_skill,         \* the skill found for the command, None when absent
    exec_tools,         \* the names of the tools supplied (tools_available)
    execution_steps,    \* the loop counter of execute_skill
    exec_errors,        \* len(errors)
    files_saved,        \* len(files_saved)
    unearned_file,      \* one of them came from a call whose status was not success
    tool_executed,      \* a tool's execute has been called
    model_calls,        \* number of llm.chat calls made
    exec_result,        \* the SkillResult returned
    \* ---- LLMClient._extract_json (agentic/src/llm.py) ----
    json_pc,            \* "idle" | "ready" | "done"
    json_text,          \* the text handed to _extract_json
    json_result,        \* what it returned or raised
    \* ---- SkillManager._execute_skill_tools (skills/manager.py) ----
    xt_pc,              \* "idle" | "ready" | "returned"
    xt_response,        \* the call-like phrases of the response, in order
    xt_tools,           \* the names of the filtered tools
    xt_tool_calls,      \* the records of the calls executed, in order
    \* ---- StreamManager.stream_agent_run (agentic/src/stream_manager.py) ----
    st_pc,              \* "idle" | "iteration" | "streaming" | "executing" | "returned" | "raised"
    st_abort,           \* StreamManager._abort
    st_step,            \* the loop variable step of stream_agent_run
    st_call,            \* the model call in flight: its answer and the chunks still to come
    st_cut,             \* a stream was left before its last chunk
    st_outcome,         \* what stream_agent_run returned or raised
    \* ---- the pace of a run of MinimalAgent (agent.py) ----
    quick_saves,        \* further saves of the run that may come too soon to be written
    more_dispatches,    \* further SubAgents the run may dispatch
    \* ---- runs of one agent started from WebSocket connections (src/agentic/src/web_server.py, stream_manager.py) ----
    ws_pc,              \* where the handler of each connection stands
    ws_context,         \* agent.context: the number of the store the agent holds, 0 for the one it was built with
    ws_stores,          \* the context stores created by runs, each a log of entries
    ws_own,             \* for each connection the store its run in progress created
    ws_step,            \* for each connection the step of its run
    ws_reads            \* the reads of a log made by THINK: the run and the store read

ctxVars == <<entries, max_context_length, auto_save, dirty, last_save_time,
             session_file, goals_file, errors_file, archives, shared_memory,
             clock, now, lastOp, calls, prevEntries, prevArchives, performed,
             appended, skipped>>

chainVars == <<chain_pc, chain_command, stack, chain_result, invoked, started,
               failures>>

filterVars == <<filter_pc, skill_allowed_tools, tools_available, filtered_tools,
                skill_outcome>>

runVars == <<run_pc, step, max_steps, thought, subagent_result, run_result,
             dispatches, thinks, executions, invocations>>

toolVars == <<tool_pc, tool_registry, tool_command, tool_behaviour, tool_result,
              tool_invocations>>

gateVars == <<max_concurrent, permits, gate_pc, gate_path, in_flight>>

retryVars == <<retry_pc, max_retries, upstream, attempt, attempts_made, backoffs,
               retry_result>>

memVars == <<snapshot, memory_at_snapshot, memory_writes>>

regVars == <<skill_dirs, registry, initial_names, reloads, disk_changes,
             scanned_dirs>>

invokeVars == <<invoke_pc, invoke_skills, invoke_command, invoke_request,
                invoke_tools, invoke_result>>

isoVars == <<iso_files, iso_stores, iso_executors>>

execVars == <<exec_pc, exec_skill, exec_tools, execution_steps, exec_errors,
              files_saved, unearned_file, tool_executed, model_calls,
              exec_result>>

jsonVars == <<json_pc, json_text, json_result>>

xtVars == <<xt_pc, xt_response, xt_tools, xt_tool_calls>>

stVars == <<st_pc, st_abort, st_step, st_call, st_cut, st_outcome>>

paceVars == <<quick_saves, more_dispatches>>

wsVars == <<ws_pc, ws_context, ws_stores, ws_own, ws_step, ws_reads>>

auxVars == <<memVars, regVars, invokeVars, isoVars, execVars, jsonVars,
             xtVars, stVars, paceVars, wsVars>>

exceptRegVars == <<ctxVars, chainVars, filterVars, runVars, toolVars,
                   gateVars, retryVars, memVars, invokeVars, isoVars,
                   execVars, jsonVars, xtVars, stVars, paceVars, wsVars>>

exceptInvokeVars == <<ctxVars, chainVars, filterVars, runVars, toolVars,
                      gateVars, retryVars, memVars, regVars, isoVars,
                      execVars, jsonVars, xtVars, stVars, paceVars, wsVars>>

exceptIsoVars == <<ctxVars, chainVars, filterVars, runVars, toolVars,
                   gateVars, retryVars, memVars, regVars, invokeVars,
                   execVars, jsonVars, xtVars, stVars, paceVars, wsVars>>

exceptExecVars == <<ctxVars, chainVars, filterVars, runVars, toolVars,
                    gateVars, retryVars, memVars, regVars, invokeVars,
                    isoVars, jsonVars, xtVars, stVars, paceVars, wsVars>>

exceptJsonVars == <<ctxVars, chainVars, filterVars, runVars, toolVars,
                    gateVars, retryVars, memVars, regVars, invokeVars,
                    isoVars, execVars, xtVars, stVars, paceVars, wsVars>>

exceptXtVars == <<ctxVars, chainVars, filterVars, runVars, toolVars,
                  gateVars, retryVars, memVars, regVars, invokeVars, isoVars,
                  execVars, jsonVars, stVars, paceVars, wsVars>>

exceptStVars == <<ctxVars, chainVars, filterVars, runVars, toolVars,
                  gateVars, retryVars, memVars, regVars, invokeVars, isoVars,
                  execVars, jsonVars, xtVars, paceVars, wsVars>>

exceptPaceVars == <<ctxVars, chainVars, filterVars, runVars, toolVars,
                    gateVars, retryVars, memVars, regVars, invokeVars,
                    isoVars, execVars, jsonVars, xtVars, stVars, wsVars>>

exceptWsVars == <<ctxVars, chainVars, filterVars, runVars, toolVars,
                  gateVars, retryVars, memVars, regVars, invokeVars, isoVars,
                  execVars, jsonVars, xtVars, stVars, paceVars>>

exceptMemVars == <<regVars, invokeVars, isoVars, execVars, jsonVars, xtVars,
                   stVars, paceVars, wsVars>>

serviceVars == <<toolVars, gateVars, retryVars, auxVars>>

vars == <<ctxVars, chainVars, filterVars, runVars, serviceVars>>

-----------------------------------------------------------------------------
(* Bounds of the model *)

\* number of store operations explored after construction
MaxCalls == 2
\* a loaded session holds 0..MaxLoadedSys system entries
MaxLoadedSys == 2
\* ... followed by MinLoaded..MaxLoaded non-system entries
MinLoaded == 18
MaxLoaded == 22
\* the ceiling the store is constructed with (constructor argument)
Ceiling == 21
\* wall-clock seconds that may pass during the explored calls
MaxNow == 1

\* a chain definition holds 0..MaxChainLen steps
MaxChainLen == 3
\* a chain nested in a step holds 0..MaxNestedLen steps
MaxNestedLen == 1

\* contents handed to the append operations
Texts == {"a", "bbbbbbbbbbbb"}
\* contents of the entries other than user requests
ShortTexts == {"a"}
ToolNames == {"t"}
GoalLists == {<<>>, <<"g">>}

-----------------------------------------------------------------------------
(* ContextEntry and the pure helpers of ContextManager *)

ContextEntry(role, content, entry_type, ts) ==
    [role |-> role, content |-> content, entry_type |-> entry_type, timestamp |-> ts]

IsSystem(e) == e.entry_type = "system"

\* [e for e in self.entries if e.entry_type == "system"]
SystemEntries(es) == SelectSeq(es, IsSystem)

\* sum(len(e.content) for e in self.entries)
RECURSIVE TotalLength(_)
TotalLength(es) ==
    IF es = <<>> THEN 0 ELSE Len(Head(es).content) + TotalLength(Tail(es))

\* _needs_compression
NeedsCompression(es, ceiling) == TotalLength(es) > ceiling

\* Python's es[-n:]
LastN(es, n) == IF Len(es) <= n THEN es ELSE SubSeq(es, Len(es) - n + 1, Len(es))

\* recent_count = 20 in compress_if_needed
recent_count == 20

\* variant: the recent window is not applied
RecentEntries_All(es) == es

\* self.entries[-recent_count:] if len(self.entries) > recent_count else []
RecentEntries(es) == IF Len(es) > recent_count THEN LastN(es, recent_count) ELSE <<>>

\* self.entries[len(system_entries):-recent_count]
\*     if len(self.entries) > len(system_entries) + recent_count else []
OldEntries(es) ==
    IF Len(es) > Len(SystemEntries(es)) + recent_count
    THEN SubSeq(es, Len(SystemEntries(es)) + 1, Len(es) - recent_count)
    ELSE <<>>

\* variant: the compressed log is never assigned back
CompressedEntries_Unchanged(es) == es

\* self.entries = system_entries + recent_entries
CompressedEntries(es) == SystemEntries(es) \o RecentEntries(es)

\* clear(): self.entries = system_entries
ClearedEntries(es) == SystemEntries(es)

\* add_system_prompt: self.entries.insert(0, entry)
InsertFirst(es, e) == <<e>> \o es

\* variant: the new entry replaces the last one
AppendLast_Overwrite(es, e) ==
    IF es = <<>> THEN <<e>> ELSE [es EXCEPT ![Len(es)] = e]

\* the appenders: self.entries.append(entry)
AppendLast(es, e) == Append(es, e)

\* f"[{tool_name}] {result}"
ToolResultContent(tool_name, result) == "[" \o tool_name \o "] " \o result

\* f"[THOUGHT] {reasoning}"
ThoughtContent(reasoning) == "[THOUGHT] " \o reasoning

\* set_goals: "# Current Goals\n\n" then "{i}. {goal}\n" per goal
RECURSIVE GoalLines(_, _)
GoalLines(goals, i) ==
    IF i > Len(goals) THEN ""
    ELSE ToString(i) \o ". " \o goals[i] \o "\n" \o GoalLines(goals, i + 1)

GoalsContent(goals) == "# Current Goals\n\n" \o GoalLines(goals, 1)

\* get_goals: the file's text, "" when there is no file
GetGoals(gf) == IF gf.exists THEN gf.text ELSE ""

Message(role, content) == [role |-> role, content |-> content]

\* get_messages, first loop: the system entries in log order
SystemPart(es) == SelectSeq(es, IsSystem)

\* get_messages, second loop: neither system nor thought entries, in log order
RecentPart(es) ==
    SelectSeq(es, LAMBDA e : e.entry_type # "system" /\ e.entry_type # "thought")

\* variant: the two loops of get_messages in the other order
MessageEntries_RecentFirst(es) == RecentPart(es) \o SystemPart(es)

\* the entries get_messages turns into messages, in the order it emits them
MessageEntries(es) == SystemPart(es) \o RecentPart(es)

\* the synthesized goals message, when include_goals and goals are non-empty
GoalsMessages(include_goals, gf) ==
    IF include_goals /\ GetGoals(gf) # ""
    THEN << Message("system", "\n" \o GetGoals(gf) \o "\n\nKeep these goals in mind.") >>
    ELSE <<>>

GetMessages(es, include_goals, gf) ==
    [i \in 1..Len(MessageEntries(es)) |->
        Message(MessageEntries(es)[i].role, MessageEntries(es)[i].content)]
    \o GoalsMessages(include_goals, gf)

EntrySet(es) == {es[i] : i \in DOMAIN es}

-----------------------------------------------------------------------------
(* Persistence: _save_session and save *)

\* _save_session returns early when not forced, a save was made before and
\* less than min_save_interval has elapsed since it (quick)
SaveSkipped(force, quick) == ~force /\ last_save_time > 0 /\ quick

\* the effect on the session file of a mutation that leaves the log at es:
\* markDirty: the operation sets _dirty; doSave: it calls _save_session
Persist(es, markDirty, doSave, force, quick) ==
    LET writes == doSave /\ ~SaveSkipped(force, quick) IN
    /\ session_file' = IF writes THEN [exists |-> TRUE, entries |-> es]
                       ELSE session_file
    /\ dirty' = IF writes THEN FALSE ELSE (markDirty \/ dirty)
    /\ last_save_time' = IF writes THEN 1 ELSE last_save_time
    /\ skipped' = IF doSave /\ ~writes THEN skipped + 1 ELSE skipped

\* bookkeeping of the call history
Called(op) ==
    /\ lastOp' = op
    /\ calls' = calls + 1
    /\ prevEntries' = entries
    /\ prevArchives' = archives
    /\ performed' = performed \cup {op}
    /\ UNCHANGED <<chainVars, filterVars, serviceVars>>

-----------------------------------------------------------------------------
(* Operations of ContextManager *)

add_system_prompt(content, quick) ==
    LET entry == ContextEntry("system", content, "system", clock + 1)
        es == InsertFirst(entries, entry) IN
    /\ entries' = es
    /\ clock' = clock + 1
    /\ appended' = appended \cup {entry}
    /\ Persist(es, TRUE, auto_save, FALSE, quick)
    /\ Called("add_system_prompt")
    /\ UNCHANGED <<max_context_length, auto_save, goals_file, errors_file,
                   archives, shared_memory, now>>

add_user_request(content, quick) ==
    LET entry == ContextEntry("user", content, "message", clock + 1)
        es == AppendLast(entries, entry) IN
    /\ entries' = es
    /\ clock' = clock + 1
    /\ appended' = appended \cup {entry}
    /\ Persist(es, TRUE, auto_save, FALSE, quick)
    /\ Called("add_user_request")
    /\ UNCHANGED <<max_context_length, auto_save, goals_file, errors_file,
                   archives, shared_memory, now>>

add_assistant_response(content, quick) ==
    LET entry == ContextEntry("assistant", content, "message", clock + 1)
        es == AppendLast(entries, entry) IN
    /\ entries' = es
    /\ clock' = clock + 1
    /\ appended' = appended \cup {entry}
    /\ Persist(es, TRUE, auto_save, FALSE, quick)
    /\ Called("add_assistant_response")
    /\ UNCHANGED <<max_context_length, auto_save, goals_file, errors_file,
                   archives, shared_memory, now>>

\* an error is journaled by _log_error and the session is not saved;
\* a success is saved when auto_save
add_tool_result(tool_name, result, is_error, quick) ==
    LET entry == ContextEntry("assistant", ToolResultContent(tool_name, result),
                              IF is_error THEN "error" ELSE "tool_result", clock + 1)
        es == AppendLast(entries, entry) IN
    /\ entries' = es
    /\ clock' = clock + 1
    /\ appended' = appended \cup {entry}
    /\ errors_file' = IF is_error
                      THEN Append(errors_file, [tool |-> tool_name, error |-> result])
                      ELSE errors_file
    /\ Persist(es, TRUE, ~is_error /\ auto_save, FALSE, quick)
    /\ Called("add_tool_result")
    /\ UNCHANGED <<max_context_length, auto_save, goals_file,
                   archives, shared_memory, now>>

add_thought(reasoning, quick) ==
    LET entry == ContextEntry("assistant", ThoughtContent(reasoning), "thought", clock + 1)
        es == AppendLast(entries, entry) IN
    /\ entries' = es
    /\ clock' = clock + 1
    /\ appended' = appended \cup {entry}
    /\ Persist(es, TRUE, auto_save, FALSE, quick)
    /\ Called("add_thought")
    /\ UNCHANGED <<max_context_length, auto_save, goals_file, errors_file,
                   archives, shared_memory, now>>

set_goals(goals) ==
    /\ goals_file' = [exists |-> TRUE, text |-> GoalsContent(goals)]
    /\ Called("set_goals")
    /\ UNCHANGED <<entries, max_context_length, auto_save, dirty, last_save_time,
                   session_file, errors_file, archives, shared_memory, clock, now,
                   appended, skipped>>

\* save(): a forced _save_session
save ==
    /\ Persist(entries, FALSE, TRUE, TRUE, FALSE)
    /\ Called("save")
    /\ UNCHANGED <<entries, max_context_length, auto_save, goals_file, errors_file,
                   archives, shared_memory, clock, now, appended>>

\* the archive file is named after the wall-clock second of the call (t);
\* write_text replaces a file of that name
ArchiveWritten(files, t, old) == (t :> old) @@ files

compress_if_needed(t) ==
    /\ IF ~NeedsCompression(entries, max_context_length)
       THEN UNCHANGED <<entries, archives, session_file, dirty, last_save_time,
                        skipped, now>>
       ELSE /\ archives' = IF OldEntries(entries) # <<>>
                           THEN ArchiveWritten(archives, t, OldEntries(entries))
                           ELSE archives
            /\ now' = IF OldEntries(entries) # <<>> THEN t ELSE now
            /\ entries' = CompressedEntries(entries)
            /\ Persist(CompressedEntries(entries), FALSE, TRUE, TRUE, FALSE)
    /\ Called("compress_if_needed")
    /\ UNCHANGED <<max_context_length, auto_save, goals_file, errors_file,
                   shared_memory, clock, appended>>

clear ==
    /\ entries' = ClearedEntries(entries)
    /\ Persist(ClearedEntries(entries), FALSE, TRUE, TRUE, FALSE)
    /\ Called("clear")
    /\ UNCHANGED <<max_context_length, auto_save, goals_file, errors_file,
                   archives, shared_memory, clock, now, appended>>

-----------------------------------------------------------------------------
(* The other components at rest *)

None == <<>>
Some(x) == <<x>>

ChainIdle ==
    /\ chain_pc = "idle"
    /\ chain_command = None
    /\ stack = <<>>
    /\ chain_result = None
    /\ invoked = <<>>
    /\ started = <<>>
    /\ failures = <<>>

FilterIdle ==
    /\ filter_pc = "idle"
    /\ skill_allowed_tools = <<>>
    /\ tools_available = <<>>
    /\ filtered_tools = None
    /\ skill_outcome = None

ToolIdle ==
    /\ tool_pc = "idle"
    /\ tool_registry = {}
    /\ tool_command = ""
    /\ tool_behaviour = None
    /\ tool_result = None
    /\ tool_invocations = 0

GateIdle ==
    /\ max_concurrent = 0
    /\ permits = 0
    /\ gate_pc = <<>>
    /\ gate_path = <<>>
    /\ in_flight = {}

RetryIdle ==
    /\ retry_pc = "idle"
    /\ max_retries = 0
    /\ upstream = <<>>
    /\ attempt = 0
    /\ attempts_made = 0
    /\ backoffs = 0
    /\ retry_result = None

MemIdle ==
    /\ snapshot = None
    /\ memory_at_snapshot = None
    /\ memory_writes = <<>>

RegIdle ==
    /\ skill_dirs = <<>>
    /\ registry = <<>>
    /\ initial_names = {}
    /\ reloads = 0
    /\ disk_changes = 0
    /\ scanned_dirs = <<>>

InvokeIdle ==
    /\ invoke_pc = "idle"
    /\ invoke_skills = <<>>
    /\ invoke_command = ""
    /\ invoke_request = ""
    /\ invoke_tools = <<>>
    /\ invoke_result = None

IsoIdle ==
    /\ iso_files = <<>>
    /\ iso_stores = <<>>
    /\ iso_executors = 0

ExecIdle ==
    /\ exec_pc = "idle"
    /\ exec_skill = None
    /\ exec_tools = {}
    /\ execution_steps = 0
    /\ exec_errors = 0
    /\ files_saved = 0
    /\ unearned_file = FALSE
    /\ tool_executed = FALSE
    /\ model_calls = 0
    /\ exec_result = None

JsonIdle ==
    /\ json_pc = "idle"
    /\ json_text = <<>>
    /\ json_result = None

XtIdle ==
    /\ xt_pc = "idle"
    /\ xt_response = <<>>
    /\ xt_tools = {}
    /\ xt_tool_calls = <<>>

StIdle ==
    /\ st_pc = "idle"
    /\ st_abort = FALSE
    /\ st_step = 0
    /\ st_call = None
    /\ st_cut = FALSE
    /\ st_outcome = None

PaceIdle ==
    /\ quick_saves = 0
    /\ more_dispatches = 0

WsIdle ==
    /\ ws_pc = <<>>
    /\ ws_context = 0
    /\ ws_stores = <<>>
    /\ ws_own = <<>>
    /\ ws_step = <<>>
    /\ ws_reads = {}

AuxIdle ==
    /\ MemIdle
    /\ RegIdle
    /\ InvokeIdle
    /\ IsoIdle
    /\ ExecIdle
    /\ JsonIdle
    /\ XtIdle
    /\ StIdle
    /\ PaceIdle
    /\ WsIdle

ExceptMemIdle ==
    /\ RegIdle
    /\ InvokeIdle
    /\ IsoIdle
    /\ ExecIdle
    /\ JsonIdle
    /\ XtIdle
    /\ StIdle
    /\ PaceIdle
    /\ WsIdle

ExceptRegIdle ==
    /\ MemIdle
    /\ InvokeIdle
    /\ IsoIdle
    /\ ExecIdle
    /\ JsonIdle
    /\ XtIdle
    /\ StIdle
    /\ PaceIdle
    /\ WsIdle

ExceptInvokeIdle ==
    /\ MemIdle
    /\ RegIdle
    /\ IsoIdle
    /\ ExecIdle
    /\ JsonIdle
    /\ XtIdle
    /\ StIdle
    /\ PaceIdle
    /\ WsIdle

ExceptIsoIdle ==
    /\ MemIdle
    /\ RegIdle
    /\ InvokeIdle
    /\ ExecIdle
    /\ JsonIdle
    /\ XtIdle
    /\ StIdle
    /\ PaceIdle
    /\ WsIdle

ExceptExecIdle ==
    /\ MemIdle
    /\ RegIdle
    /\ InvokeIdle
    /\ IsoIdle
    /\ JsonIdle
    /\ XtIdle
    /\ StIdle
    /\ PaceIdle
    /\ WsIdle

ExceptJsonIdle ==
    /\ MemIdle
    /\ RegIdle
    /\ InvokeIdle
    /\ IsoIdle
    /\ ExecIdle
    /\ XtIdle
    /\ StIdle
    /\ PaceIdle
    /\ WsIdle

ExceptXtIdle ==
    /\ MemIdle
    /\ RegIdle
    /\ InvokeIdle
    /\ IsoIdle
    /\ ExecIdle
    /\ JsonIdle
    /\ StIdle
    /\ PaceIdle
    /\ WsIdle

ExceptStIdle ==
    /\ MemIdle
    /\ RegIdle
    /\ InvokeIdle
    /\ IsoIdle
    /\ ExecIdle
    /\ JsonIdle
    /\ XtIdle
    /\ PaceIdle
    /\ WsIdle

ExceptPaceIdle ==
    /\ MemIdle
    /\ RegIdle
    /\ InvokeIdle
    /\ IsoIdle
    /\ ExecIdle
    /\ JsonIdle
    /\ XtIdle
    /\ StIdle
    /\ WsIdle

ExceptWsIdle ==
    /\ MemIdle
    /\ RegIdle
    /\ InvokeIdle
    /\ IsoIdle
    /\ ExecIdle
    /\ JsonIdle
    /\ XtIdle
    /\ StIdle
    /\ PaceIdle

ServicesIdle == ToolIdle /\ GateIdle /\ RetryIdle /\ AuxIdle

RunIdle ==
    /\ run_pc = "idle"
    /\ step = 0
    /\ max_steps = 0
    /\ thought = None
    /\ subagent_result = None
    /\ run_result = None
    /\ dispatches = 0
    /\ thinks = 0
    /\ executions = 0
    /\ invocations = 0

-----------------------------------------------------------------------------
(* Specification of the context store: a store constructed on an empty     *)
(* workspace or on a workspace holding a saved session (_load_session),    *)
(* then driven through its operations in any order.                        *)

\* a saved session: nSys system prompts (each inserted first, so the latest
\* leads) followed by nNon messages, alternately user and assistant
LoadedEntries(nSys, nNon) ==
    [i \in 1..(nSys + nNon) |->
        IF i <= nSys
        THEN ContextEntry("system", "ss", "system", nSys - i + 1)
        ELSE IF (i - nSys) % 2 = 1
             THEN ContextEntry("user", "a", "message", i)
             ELSE ContextEntry("assistant", "a", "message", i)]

LoadedSessions ==
    {<<>>} \cup {LoadedEntries(nSys, nNon) :
                    nSys \in 0..MaxLoadedSys, nNon \in MinLoaded..MaxLoaded}

InitCtx ==
    /\ entries \in LoadedSessions
    /\ max_context_length = Ceiling
    /\ auto_save \in BOOLEAN
    /\ dirty = FALSE
    /\ last_save_time = 0
    /\ session_file = IF entries = <<>>
                      THEN [exists |-> FALSE, entries |-> <<>>]
                      ELSE [exists |-> TRUE, entries |-> entries]
    /\ goals_file = [exists |-> FALSE, text |-> ""]
    /\ errors_file = <<>>
    /\ archives = <<>>
    /\ shared_memory = <<>>
    /\ clock = Len(entries)
    /\ now = 0
    /\ lastOp = "init"
    /\ calls = 0
    /\ prevEntries = entries
    /\ prevArchives = archives
    /\ performed = {}
    /\ appended = EntrySet(entries)
    /\ skipped = 0
    /\ ServicesIdle
    /\ ChainIdle
    /\ FilterIdle
    /\ RunIdle

\* whether less than min_save_interval has elapsed since the last save: it only
\* matters for a non-forced save made after an earlier one
Quicks == IF auto_save /\ last_save_time > 0 THEN BOOLEAN ELSE {FALSE}

CallAddSystemPrompt ==
    /\ UNCHANGED runVars
    /\ calls < MaxCalls
    /\ \E c \in ShortTexts, q \in Quicks : add_system_prompt(c, q)

CallAddUserRequest ==
    /\ UNCHANGED runVars
    /\ calls < MaxCalls
    /\ \E c \in Texts, q \in Quicks : add_user_request(c, q)

CallAddAssistantResponse ==
    /\ UNCHANGED runVars
    /\ calls < MaxCalls
    /\ \E c \in ShortTexts, q \in Quicks : add_assistant_response(c, q)

CallAddToolResult ==
    /\ UNCHANGED runVars
    /\ calls < MaxCalls
    /\ \E tn \in ToolNames, c \in ShortTexts, err \in BOOLEAN, q \in Quicks :
          add_tool_result(tn, c, err, q)

CallAddThought ==
    /\ UNCHANGED runVars
    /\ calls < MaxCalls
    /\ \E c \in ShortTexts, q \in Quicks : add_thought(c, q)

CallSetGoals ==
    /\ UNCHANGED runVars
    /\ calls < MaxCalls
    /\ \E g \in GoalLists : set_goals(g)

CallCompressIfNeeded ==
    /\ UNCHANGED runVars
    /\ calls < MaxCalls
    /\ \E t \in {now, now + 1} : t <= MaxNow /\ compress_if_needed(t)

CallClear ==
    /\ UNCHANGED runVars
    /\ calls < MaxCalls
    /\ clear

CallSave ==
    /\ UNCHANGED runVars
    /\ calls < MaxCalls
    /\ save

NextCtx ==
    \/ CallAddSystemPrompt
    \/ CallAddUserRequest
    \/ CallAddAssistantResponse
    \/ CallAddToolResult
    \/ CallAddThought
    \/ CallSetGoals
    \/ CallCompressIfNeeded
    \/ CallClear
    \/ CallSave

SpecCtx == InitCtx /\ [][NextCtx]_vars

-----------------------------------------------------------------------------
(* Properties of the context store, checked under SpecCtx *)

Archived(e) == \E t \in DOMAIN archives : e \in EntrySet(archives[t])

AppendOps == {"add_system_prompt", "add_user_request", "add_assistant_response",
              "add_tool_result", "add_thought"}

\* C1: in the list returned by get_messages, with or without goals, every
\* message made from a system-type entry comes before every message made from
\* a non-system entry, whatever the interleaving of the appends; the messages
\* are those entries' role and content, in that order, and a goals message,
\* when there is one, comes last.
C1_SystemPrefix ==
    \A g \in BOOLEAN :
        LET src == MessageEntries(entries)
            msgs == GetMessages(entries, g, goals_file) IN
        /\ \A i, j \in DOMAIN src : (IsSystem(src[i]) /\ ~IsSystem(src[j])) => i < j
        /\ \A i \in DOMAIN src : msgs[i] = Message(src[i].role, src[i].content)
        /\ Len(msgs) \in {Len(src), Len(src) + 1}

\* a system prompt added after a message and a thought were appended, and goals set
C1_Witness ==
    /\ \E i, j \in DOMAIN entries :
          /\ IsSystem(entries[i]) /\ ~IsSystem(entries[j])
          /\ entries[i].timestamp > entries[j].timestamp
    /\ Len(GetMessages(entries, TRUE, goals_file)) = Len(MessageEntries(entries)) + 1
    /\ Len(MessageEntries(entries)) >= 2

SameContentAndType ==
    \A i \in DOMAIN entries, j \in DOMAIN entries' :
        entries[i].timestamp = entries'[j].timestamp =>
            /\ entries'[j].content = entries[i].content
            /\ entries'[j].entry_type = entries[i].entry_type

NothingRemoved == \A i \in DOMAIN entries : entries[i] \in EntrySet(entries')

\* C3 (as stated): no operation changes the content or entry_type of an entry
\* already in the log, and no operation other than compress_if_needed removes
\* an entry from the log.
C3_Original ==
    [][SameContentAndType /\ (lastOp' # "compress_if_needed" => NothingRemoved)]_vars

\* C3 (amended): no operation changes the content or entry_type of an entry
\* already in the log, and no operation other than compress_if_needed and
\* clear removes an entry from the log.
C3_AppendOnly ==
    [][SameContentAndType /\
       (lastOp' \notin {"compress_if_needed", "clear"} => NothingRemoved)]_vars

\* an append made on a non-empty log
C3_Witness ==
    /\ lastOp \in AppendOps
    /\ prevEntries # <<>>
    /\ Len(entries) = Len(prevEntries) + 1

\* C4: right after compress_if_needed, the total content length is at most
\* max_context_length or the live log holds at most (number of system
\* entries + 20) entries.
C4_CompressionBound ==
    lastOp = "compress_if_needed" =>
        \/ TotalLength(entries) <= max_context_length
        \/ Len(entries) <= Len(SystemEntries(entries)) + recent_count

\* a compression that triggered and left the log above the ceiling
C4_Witness ==
    /\ lastOp = "compress_if_needed"
    /\ NeedsCompression(prevEntries, max_context_length)
    /\ TotalLength(entries) > max_context_length

\* C5 (as stated): right after compress_if_needed the total content length
\* of the live log is at most max_context_length.
C5_Original ==
    lastOp = "compress_if_needed" => TotalLength(entries) <= max_context_length

\* C5 (amended): right after compress_if_needed the total content length of
\* the live log is at most max_context_length provided the system entries
\* and the 20 most recent entries of the log before the call together are at
\* most max_context_length.
C5_BoundWhenKeptFits ==
    (/\ lastOp = "compress_if_needed"
     /\ TotalLength(SystemEntries(prevEntries))
          + TotalLength(LastN(prevEntries, recent_count)) <= max_context_length)
    => TotalLength(entries) <= max_context_length

\* a compression that triggered on a log whose kept part fits, and cut it
C5_Witness ==
    /\ lastOp = "compress_if_needed"
    /\ NeedsCompression(prevEntries, max_context_length)
    /\ TotalLength(SystemEntries(prevEntries))
         + TotalLength(LastN(prevEntries, recent_count)) <= max_context_length
    /\ Len(entries) < Len(prevEntries)
    /\ archives # prevArchives

\* C6: a compress_if_needed made right after another one leaves the live log
\* and the archive files unchanged.
C6_Idempotent ==
    [][(lastOp = "compress_if_needed" /\ lastOp' = "compress_if_needed")
         => (entries' = entries /\ archives' = archives)]_vars

\* C7: after appends and compressions only, every entry ever appended is in
\* the live log or in an archive file.
C7_NothingLost ==
    "clear" \notin performed =>
        \A e \in appended : e \in EntrySet(entries) \/ Archived(e)

\* the entries of es that are system entries or among its last n, in the
\* order of es
RECURSIVE SystemOrLast(_, _)
SystemOrLast(es, n) ==
    IF es = <<>> THEN <<>>
    ELSE IF IsSystem(Head(es)) \/ Len(es) <= n
    THEN <<Head(es)>> \o SystemOrLast(Tail(es), n)
    ELSE SystemOrLast(Tail(es), n)

\* C26: after a compress_if_needed that triggered, the live log is made of
\* every system entry and of the 20 last entries of the log before the call
\* (of all its entries when it held fewer), each once and in their order.
C26_KeepsSystemAndRecent ==
    (lastOp = "compress_if_needed"
        /\ NeedsCompression(prevEntries, max_context_length)) =>
       entries = SystemOrLast(prevEntries, recent_count)

-----------------------------------------------------------------------------
(* The chain executor: ChainSubAgent.execute, with ToolSubAgent.execute    *)
(* for its tool steps.  src/src/subagents/chain_subagent.py and            *)
(* src/agentic/src/subagents/chain_subagent.py have the same control flow  *)
(* (the second also sends events).                                         *)

\* SubAgentResult; error and result are None or Some(value)
SubAgentResult(success, result, summary, error, step_index) ==
    [success |-> success, result |-> result, summary |-> summary,
     error |-> error, step_index |-> step_index]

\* the tools handed to the chain's ToolSubAgents (self.subagents.get('tools', {}))
ChainTools == {"t"}

\* what a tool's execute may do
ToolOutcomes == {"returns", "raises"}

\* variant: an unknown command counts as executed
ToolNotFoundResult_Executed(command) ==
    SubAgentResult(TRUE, None, "Tool '" \o command \o "' executed successfully",
                   None, None)

\* the three results of ToolSubAgent.execute: the command names no tool,
\* the tool's execute raised an exception with this message (error is str(e)),
\* the tool's execute returned this value
ToolNotFoundResult(command) ==
    SubAgentResult(FALSE, None, "Tool not found: " \o command,
                   Some("Tool not found: " \o command), None)

ToolRaisedResult(command, message) ==
    SubAgentResult(FALSE, None, "Tool '" \o command \o "' execution failed",
                   Some(message), None)

ToolReturnedResult(command, value) ==
    SubAgentResult(TRUE, Some(value),
                   "Tool '" \o command \o "' executed successfully", None, None)

\* ToolSubAgent.execute(command, parameters); n identifies the value returned
ToolSubAgentExecute(command, outcome, n) ==
    IF command \notin ChainTools
    THEN ToolNotFoundResult(command)
    ELSE IF outcome = "raises"
    THEN ToolRaisedResult(command, "boom")
    ELSE ToolReturnedResult(command, [kind |-> "tool", id |-> n])

\* json.loads failed on the command
InvalidDefinition ==
    SubAgentResult(FALSE, None, "Invalid chain definition",
                   Some("Failed to parse chain JSON"), None)

\* the parsed command is not a list
InvalidFormat ==
    SubAgentResult(FALSE, None, "Invalid chain format",
                   Some("Chain must be a list of steps"), None)

\* no SubAgent for the step's type
SubAgentNotFound(i, subagent_type) ==
    SubAgentResult(FALSE, None, "SubAgent not found at step " \o ToString(i),
                   Some("SubAgent type '" \o subagent_type \o "' not found"), Some(i))

\* the step's SubAgent returned a failed result
StepFailed(i, result) ==
    SubAgentResult(FALSE, None, "Step " \o ToString(i) \o " failed",
                   Some("Step failed: " \o
                        (IF result.error = None THEN "None" ELSE result.error[1])),
                   Some(i))

\* an exception was raised inside the try block of step i
ExceptionAtStep(i, message) ==
    SubAgentResult(FALSE, None, "Exception at step " \o ToString(i),
                   Some(message), Some(i))

\* the loop ran to its end
ChainCompleted(results) ==
    SubAgentResult(TRUE,
        Some([kind |-> "chain",
              steps |-> [k \in 1..Len(results) |-> results[k].result],
              step_count |-> Len(results),
              summary |-> "Chain executed successfully"]),
        "Chain completed: " \o ToString(Len(results)) \o " steps executed",
        None, None)

\* current_input = parameters, then {"previous_result": result.result}
InitialParameters == [parameters |-> "p"]

\* variant: the input of the next step stays what the chain was called with
PreviousResult_Initial(result) == InitialParameters

PreviousResult(result) == [previous_result |-> result.result]

\* one active execute call: its steps, the index of the step the loop is at,
\* results, current_input, and the path of the step that made the call
Frame(steps, path, input) ==
    [steps |-> steps, i |-> 1, results |-> <<>>, input |-> input, path |-> path]

Front(q) == SubSeq(q, 1, Len(q) - 1)
Top(q) == q[Len(q)]
StepPath(f) == Append(f.path, f.i)

Outcome(stk, final, failed) == [stack |-> stk, final |-> final, failed |-> failed]

RECURSIVE Deliver(_, _, _), Settle(_, _)

\* variant: a failed result does not end the call, the loop goes on
Deliver_ContinueOnFailure(stk, r, failed) ==
    IF stk = <<>> THEN Outcome(<<>>, Some(r), failed)
    ELSE LET f == Top(stk) IN
         IF ~r.success
         THEN Settle(Append(Front(stk), [f EXCEPT !.i = f.i + 1]),
                     Append(failed, [path |-> StepPath(f), error |-> r.error]))
         ELSE Settle(Append(Front(stk),
                            [f EXCEPT !.results = Append(f.results, r),
                                      !.input = PreviousResult(r),
                                      !.i = f.i + 1]),
                     failed)

\* the SubAgent of the step the innermost call is at has returned r:
\* a failed r ends that call with StepFailed, a success is appended and
\* becomes the next input
Deliver(stk, r, failed) ==
    IF stk = <<>> THEN Outcome(<<>>, Some(r), failed)
    ELSE LET f == Top(stk) IN
         IF ~r.success
         THEN Deliver(Front(stk), StepFailed(f.i, r),
                      Append(failed, [path |-> StepPath(f), error |-> r.error]))
         ELSE Settle(Append(Front(stk),
                            [f EXCEPT !.results = Append(f.results, r),
                                      !.input = PreviousResult(r),
                                      !.i = f.i + 1]),
                     failed)

\* the innermost call is at its loop head: past the last step it returns
\* ChainCompleted to its caller
Settle(stk, failed) ==
    LET f == Top(stk) IN
    IF f.i > Len(f.steps)
    THEN Deliver(Front(stk), ChainCompleted(f.results), failed)
    ELSE Outcome(stk, None, failed)

\* the innermost call ends at step i with a failure of its own
Fail(stk, r, error) ==
    Deliver(Front(stk), r,
            <<[path |-> StepPath(Top(stk)), error |-> error]>>)

Continue(o) ==
    /\ stack' = o.stack
    /\ chain_result' = o.final
    /\ chain_pc' = IF o.final = None THEN "running" ELSE "done"
    /\ failures' = failures \o o.failed

AtStep ==
    /\ chain_pc = "running"
    /\ stack # <<>>
    /\ Top(stack).i <= Len(Top(stack).steps)

CurrentStep == Top(stack).steps[Top(stack).i]

\* execute(command, parameters) of the top-level chain
ChainExecute ==
    /\ chain_pc = "ready"
    /\ IF chain_command[1].form = "text"
       THEN Continue(Outcome(<<>>, Some(InvalidDefinition), <<>>))
       ELSE IF chain_command[1].form = "notlist"
       THEN Continue(Outcome(<<>>, Some(InvalidFormat), <<>>))
       ELSE Continue(Settle(<<Frame(chain_command[1].steps, <<>>, InitialParameters)>>,
                            <<>>))
    /\ UNCHANGED <<chain_command, invoked, started, ctxVars, filterVars, runVars, serviceVars>>

\* a step of type "skill": continue
StepSkill ==
    /\ AtStep
    /\ CurrentStep.type = "skill"
    /\ started' = Append(started, StepPath(Top(stack)))
    /\ Continue(Settle(Append(Front(stack), [Top(stack) EXCEPT !.i = @ + 1]), <<>>))
    /\ UNCHANGED <<chain_command, invoked, ctxVars, filterVars, runVars, serviceVars>>

\* a step of any other type than tool, skill, chain: subagent = None
StepUnknownType ==
    /\ AtStep
    /\ CurrentStep.type \notin {"tool", "skill", "chain"}
    /\ started' = Append(started, StepPath(Top(stack)))
    /\ LET r == SubAgentNotFound(Top(stack).i, CurrentStep.type) IN
           Continue(Fail(stack, r, r.error))
    /\ UNCHANGED <<chain_command, invoked, ctxVars, filterVars, runVars, serviceVars>>

\* a step of type "tool": step["command"] raises KeyError when the key is
\* missing; otherwise ToolSubAgent.execute runs and its result is handled
StepTool ==
    /\ AtStep
    /\ CurrentStep.type = "tool"
    /\ started' = Append(started, StepPath(Top(stack)))
    /\ IF CurrentStep.command = None
       THEN /\ Continue(Fail(stack, ExceptionAtStep(Top(stack).i, "'command'"),
                             Some("'command'")))
            /\ UNCHANGED invoked
       ELSE /\ invoked' = Append(invoked,
                    [path |-> StepPath(Top(stack)), type |-> "tool",
                     command |-> CurrentStep.command[1], input |-> Top(stack).input])
            /\ \E outcome \in ToolOutcomes :
                   Continue(Deliver(stack,
                       ToolSubAgentExecute(CurrentStep.command[1].name, outcome,
                                           Len(invoked) + 1),
                       <<>>))
    /\ UNCHANGED <<chain_command, ctxVars, filterVars, runVars, serviceVars>>

\* a step of type "chain": a nested ChainSubAgent.execute on step["command"]
StepChain ==
    /\ AtStep
    /\ CurrentStep.type = "chain"
    /\ started' = Append(started, StepPath(Top(stack)))
    /\ invoked' = Append(invoked,
            [path |-> StepPath(Top(stack)), type |-> "chain",
             command |-> CurrentStep.command[1], input |-> Top(stack).input])
    /\ IF CurrentStep.command[1].form = "text"
       THEN Continue(Deliver(stack, InvalidDefinition, <<>>))
       ELSE IF CurrentStep.command[1].form = "notlist"
       THEN Continue(Deliver(stack, InvalidFormat, <<>>))
       ELSE Continue(Settle(Append(stack,
                Frame(CurrentStep.command[1].steps, StepPath(Top(stack)),
                      Top(stack).input)), <<>>))
    /\ UNCHANGED <<chain_command, ctxVars, filterVars, runVars, serviceVars>>

-----------------------------------------------------------------------------
(* Specification of the chain executor: one top-level execute on a chain   *)
(* definition drawn from the bounded set of definitions.                   *)

Step(type, command) == [type |-> type, command |-> command]

RECURSIVE SeqsUpTo(_, _)
SeqsUpTo(S, n) ==
    IF n = 0 THEN {<<>>}
    ELSE SeqsUpTo(S, n - 1) \cup
         {Append(q, x) : q \in {r \in SeqsUpTo(S, n - 1) : Len(r) = n - 1}, x \in S}

\* a command is a text (a tool or skill name, or a string that is not JSON),
\* a JSON text that is not a list, or a list of steps
TextCommand(name) == [form |-> "text", name |-> name, steps |-> <<>>]
NotListCommand == [form |-> "notlist", name |-> "", steps |-> <<>>]
ListCommand(steps) == [form |-> "list", name |-> "", steps |-> steps]

\* steps of a nested chain
NestedSteps == {Step("tool", Some(TextCommand("t"))), Step("skill", Some(TextCommand("s")))}

NestedCommands ==
    {TextCommand("not json")} \cup
    {ListCommand(q) : q \in SeqsUpTo(NestedSteps, MaxNestedLen)}

\* steps of the top-level chain
TopSteps ==
    {Step("tool", Some(TextCommand("t"))), Step("tool", Some(TextCommand("missing"))),
     Step("tool", None), Step("skill", Some(TextCommand("s"))),
     Step("report", Some(TextCommand("r")))}
    \cup {Step("chain", Some(c)) : c \in NestedCommands}

ChainCommands ==
    {TextCommand("not json"), NotListCommand} \cup
    {ListCommand(q) : q \in SeqsUpTo(TopSteps, MaxChainLen)}

\* a store nobody uses
CtxIdle ==
    /\ entries = <<>>
    /\ max_context_length = Ceiling
    /\ auto_save = FALSE
    /\ dirty = FALSE
    /\ last_save_time = 0
    /\ session_file = [exists |-> FALSE, entries |-> <<>>]
    /\ goals_file = [exists |-> FALSE, text |-> ""]
    /\ errors_file = <<>>
    /\ archives = <<>>
    /\ shared_memory = <<>>
    /\ clock = 0
    /\ now = 0
    /\ lastOp = "init"
    /\ calls = 0
    /\ prevEntries = <<>>
    /\ prevArchives = <<>>
    /\ performed = {}
    /\ appended = {}
    /\ skipped = 0

InitChain ==
    /\ CtxIdle
    /\ ServicesIdle
    /\ FilterIdle
    /\ RunIdle
    /\ chain_pc = "ready"
    /\ chain_command \in {Some(c) : c \in ChainCommands}
    /\ stack = <<>>
    /\ chain_result = None
    /\ invoked = <<>>
    /\ started = <<>>
    /\ failures = <<>>

NextChain ==
    \/ ChainExecute
    \/ StepSkill
    \/ StepUnknownType
    \/ StepTool
    \/ StepChain

SpecChain == InitChain /\ [][NextChain]_vars

-----------------------------------------------------------------------------
(* Properties of the chain executor, checked under SpecChain *)

\* the steps of the execute call made by the step at path q (<<>>: top level)
Under(log, q) == {k \in DOMAIN log : Len(log[k]) = Len(q) + 1 /\ Front(log[k]) = q}
InvokedPaths == [k \in DOMAIN invoked |-> invoked[k].path]
FailurePaths == [k \in DOMAIN failures |-> failures[k].path]
LastOf(p) == p[Len(p)]

\* C8: in every execute call, of the top-level chain or of a nested one, when
\* step i is the first step that fails (its SubAgent returned a failed result,
\* an exception was raised, or its type is unknown) the loop has reached
\* exactly the steps 1..i, each once; no step after i is reached or invoked;
\* no step is invoked twice; and the top-level call returns success=false
\* with step index i and an error that is, or ends with, the inner error.
C8_ShortCircuit ==
    /\ \A k \in DOMAIN failures :
          LET p == failures[k].path
              q == Front(p)
              i == LastOf(p) IN
          /\ {LastOf(started[n]) : n \in Under(started, q)} = 1..i
          /\ Cardinality(Under(started, q)) = i
          /\ \A n \in Under(InvokedPaths, q) : LastOf(invoked[n].path) <= i
          /\ Cardinality(Under(FailurePaths, q)) = 1
    /\ \A m, n \in DOMAIN invoked : invoked[m].path = invoked[n].path => m = n
    /\ \A k \in DOMAIN failures :
          (chain_pc = "done" /\ Len(failures[k].path) = 1) =>
              /\ chain_result[1].success = FALSE
              /\ chain_result[1].result = None
              /\ chain_result[1].step_index = Some(LastOf(failures[k].path))
              /\ failures[k].error # None
              /\ chain_result[1].error \in
                    {failures[k].error,
                     Some("Step failed: " \o failures[k].error[1])}

\* steps [A, B, C] where A succeeded and B failed: two SubAgents invoked
C8_Witness ==
    /\ chain_pc = "done"
    /\ Len(chain_command[1].steps) = 3
    /\ Len(failures) = 1 /\ failures[1].path = <<2>>
    /\ InvokedPaths = << <<1>>, <<2>> >>
    /\ chain_result[1].step_index = Some(2)

\* C9: a chain that returns success has invoked a SubAgent for every step of
\* its definition exactly once, in definition order, and its result holds one
\* per-step result for each step of the definition.
C9_AllStepsExecuted ==
    (chain_pc = "done" /\ chain_result[1].success) =>
        LET n == Len(chain_command[1].steps)
            top == SelectSeq(InvokedPaths, LAMBDA p : Len(p) = 1) IN
        /\ top = [k \in 1..n |-> <<k>>]
        /\ chain_result[1].result[1].step_count = n
        /\ Len(chain_result[1].result[1].steps) = n

\* the parameters an execute call was made with: those of the top-level call,
\* or the input handed to the chain step that made the nested call
CallParameters(f) ==
    IF f.path = <<>> THEN InitialParameters
    ELSE LET k == CHOOSE j \in 1..Len(invoked) : invoked[j].path = f.path IN
         invoked[k].input

\* what the claim gives as input to the next step executed by the call f
ExpectedInput(f) ==
    IF f.results = <<>> THEN CallParameters(f)
    ELSE [previous_result |-> f.results[Len(f.results)].result]

StepReceivesExpectedInput ==
    Len(invoked') = Len(invoked) + 1 =>
        invoked'[Len(invoked')].input = ExpectedInput(Top(stack))

\* C27: in each execute call of a chain, the first step that is executed
\* receives the parameters the call was made with, and every later step
\* receives exactly {previous_result: r}, r being the result of the step
\* executed just before it in that call.
C27_InputsChained ==
    [][StepReceivesExpectedInput]_vars

\* a second executed step has received the result of the first, and a nested
\* call has handed its parameters to its first step
C27_Witness ==
    /\ \E k \in 1..Len(invoked) :
          /\ invoked[k].path = <<2>>
          /\ invoked[k].input = [previous_result |-> Some([kind |-> "tool", id |-> 1])]
    /\ \E k \in 1..Len(invoked) :
          /\ invoked[k].path = <<2, 1>>
          /\ invoked[k].input = [previous_result |-> Some([kind |-> "tool", id |-> 1])]

-----------------------------------------------------------------------------
(* Skill tool filtering: SkillContextManager.filter_allowed_tools and the   *)
(* validation the skill executor makes on its result.                      *)
(* A dict of tools is a function from tool names to tools.                 *)

MaxAllowed == 2

ToolKeys == {"x", "y", "z"}
ToolValues == {"T1", "T2"}

EmptyDict == [n \in {} |-> "T1"]
WithItem(d, k, v) == [n \in DOMAIN d \cup {k} |-> IF n = k THEN v ELSE d[n]]
Names(list) == {list[i] : i \in DOMAIN list}

\* the loop over skill.allowed_tools, filtered_tools being acc
RECURSIVE FilterLoop(_, _, _)
FilterLoop(allowed, tools, acc) ==
    IF allowed = <<>> THEN acc
    ELSE FilterLoop(Tail(allowed), tools,
                    IF Head(allowed) \in DOMAIN tools
                    THEN WithItem(acc, Head(allowed), tools[Head(allowed)])
                    ELSE acc)

\* variant: every supplied tool is returned whatever the skill declares
filter_allowed_tools_Unfiltered(allowed, tools) == tools

filter_allowed_tools(allowed, tools) ==
    IF allowed = <<>> THEN tools
    ELSE FilterLoop(allowed, tools, EmptyDict)

\* variant: no declared tool is ever reported missing
MissingTools_Ignored(allowed, filtered) == {}

\* set(skill.allowed_tools) - set(filtered_tools.keys())
MissingTools(allowed, filtered) == Names(allowed) \ DOMAIN filtered

FilterAllowedTools ==
    /\ filter_pc = "ready"
    /\ filtered_tools' = Some(filter_allowed_tools(skill_allowed_tools, tools_available))
    /\ filter_pc' = "filtered"
    /\ UNCHANGED <<skill_allowed_tools, tools_available, skill_outcome,
                   ctxVars, chainVars, runVars, serviceVars>>

\* the skill executor fails at once, naming the declared tools it was not given
SkillMissingTools ==
    /\ filter_pc = "filtered"
    /\ MissingTools(skill_allowed_tools, filtered_tools[1]) # {}
    /\ skill_outcome' = Some([success |-> FALSE,
                              missing |-> MissingTools(skill_allowed_tools,
                                                       filtered_tools[1])])
    /\ filter_pc' = "validated"
    /\ UNCHANGED <<skill_allowed_tools, tools_available, filtered_tools,
                   ctxVars, chainVars, runVars, serviceVars>>

\* the skill executor goes on with the filtered tools
SkillProceeds ==
    /\ filter_pc = "filtered"
    /\ MissingTools(skill_allowed_tools, filtered_tools[1]) = {}
    /\ skill_outcome' = Some([success |-> TRUE, missing |-> {}])
    /\ filter_pc' = "validated"
    /\ UNCHANGED <<skill_allowed_tools, tools_available, filtered_tools,
                   ctxVars, chainVars, runVars, serviceVars>>

ToolMaps == UNION {[S -> ToolValues] : S \in SUBSET ToolKeys}

InitFilter ==
    /\ CtxIdle
    /\ ServicesIdle
    /\ ChainIdle
    /\ RunIdle
    /\ filter_pc = "ready"
    /\ skill_allowed_tools \in SeqsUpTo(ToolKeys, MaxAllowed)
    /\ tools_available \in ToolMaps
    /\ filtered_tools = None
    /\ skill_outcome = None

NextFilter ==
    \/ FilterAllowedTools
    \/ SkillMissingTools
    \/ SkillProceeds

SpecFilter == InitFilter /\ [][NextFilter]_vars

-----------------------------------------------------------------------------
(* Properties of the tool filter, checked under SpecFilter *)

Restrict(d, S) == [n \in S |-> d[n]]

\* the supplied tools whose names the skill declares
Intersection == Restrict(tools_available,
                         Names(skill_allowed_tools) \cap DOMAIN tools_available)

\* C10 as stated: for every skill and every map of supplied tools the result
\* of filter_allowed_tools is exactly the supplied tools whose names are in
\* the skill's allowed_tools.
C10_Original ==
    filtered_tools # None => filtered_tools[1] = Intersection

\* C10: for a skill that declares at least one allowed tool the result of
\* filter_allowed_tools is exactly the supplied tools whose names are in the
\* skill's allowed_tools, and no other tool; for a skill that declares none
\* the result is the whole map of supplied tools.
C10_FilterByDeclaration ==
    filtered_tools # None =>
        IF skill_allowed_tools = <<>>
        THEN filtered_tools[1] = tools_available
        ELSE filtered_tools[1] = Intersection

\* allowed_tools {x}, supplied {x: T1, y: T2}: the result is exactly {x: T1}
C10_Witness ==
    /\ skill_allowed_tools = <<"x">>
    /\ tools_available = [n \in {"x", "y"} |-> IF n = "x" THEN "T1" ELSE "T2"]
    /\ filtered_tools = Some([n \in {"x"} |-> "T1"])

-----------------------------------------------------------------------------
(* The tool executor: ToolSubAgent.execute on a registry of tools. The     *)
(* behaviour of the tool named by the command is an input: its execute     *)
(* returns a ToolResult with a status, or raises an exception with a       *)
(* message.                                                                *)

ToolRegistryNames == {"t", "u", "v"}
ToolCommands == ToolRegistryNames \cup {"unknown_tool"}

ToolBehaviour(kind, status, text) == [kind |-> kind, status |-> status, text |-> text]

ToolBehaviours ==
    {ToolBehaviour("returns", "success", ""),
     ToolBehaviour("returns", "failed", "disk full"),
     ToolBehaviour("raises", "", ""),
     ToolBehaviour("raises", "", "boom")}

\* BaseTool.success / BaseTool.error
ToolResult(tool_name, status, error) ==
    [tool_name |-> tool_name, status |-> status, error |-> error]

\* self.tools.get(command) finds nothing
ToolNotFound ==
    /\ tool_pc = "ready"
    /\ tool_command \notin tool_registry
    /\ tool_result' = Some(ToolNotFoundResult(tool_command))
    /\ tool_pc' = "done"
    /\ UNCHANGED <<tool_registry, tool_command, tool_behaviour, tool_invocations,
                   ctxVars, chainVars, filterVars, runVars, gateVars, retryVars,
                   auxVars>>

\* the tool's execute returned a ToolResult
ToolReturns ==
    /\ tool_pc = "ready"
    /\ tool_command \in tool_registry
    /\ tool_behaviour[1].kind = "returns"
    /\ tool_invocations' = tool_invocations + 1
    /\ tool_result' = Some(ToolReturnedResult(tool_command,
                               ToolResult(tool_command, tool_behaviour[1].status,
                                          tool_behaviour[1].text)))
    /\ tool_pc' = "done"
    /\ UNCHANGED <<tool_registry, tool_command, tool_behaviour,
                   ctxVars, chainVars, filterVars, runVars, gateVars, retryVars,
                   auxVars>>

\* the tool's execute raised
ToolRaises ==
    /\ tool_pc = "ready"
    /\ tool_command \in tool_registry
    /\ tool_behaviour[1].kind = "raises"
    /\ tool_invocations' = tool_invocations + 1
    /\ tool_result' = Some(ToolRaisedResult(tool_command, tool_behaviour[1].text))
    /\ tool_pc' = "done"
    /\ UNCHANGED <<tool_registry, tool_command, tool_behaviour,
                   ctxVars, chainVars, filterVars, runVars, gateVars, retryVars,
                   auxVars>>

InitTool ==
    /\ CtxIdle
    /\ ChainIdle
    /\ FilterIdle
    /\ RunIdle
    /\ GateIdle
    /\ RetryIdle
    /\ AuxIdle
    /\ tool_pc = "ready"
    /\ tool_registry \in SUBSET ToolRegistryNames
    /\ tool_command \in ToolCommands
    /\ tool_behaviour \in {Some(b) : b \in ToolBehaviours}
    /\ tool_result = None
    /\ tool_invocations = 0

NextTool ==
    \/ ToolNotFound
    \/ ToolReturns
    \/ ToolRaises

SpecTool == InitTool /\ [][NextTool]_vars

-----------------------------------------------------------------------------
(* Properties of the tool executor, checked under SpecTool *)

ToolSucceeded ==
    /\ tool_command \in tool_registry
    /\ tool_behaviour[1].kind = "returns"
    /\ tool_behaviour[1].status = "success"

\* C11: the result of the tool executor has success=true exactly when the
\* tool's execute returned a ToolResult of status success; when the tool
\* returned another status or raised, the result has success=false and its
\* error is the error text of the ToolResult or of the exception.
C11_SuccessOnlyOnSuccessStatus ==
    tool_pc = "done" =>
        /\ tool_result[1].success <=> ToolSucceeded
        /\ (tool_command \in tool_registry /\ ~ToolSucceeded) =>
               tool_result[1].error = Some(tool_behaviour[1].text)

\* C12: a result of the tool executor with success=false carries an error
\* that is present and not the empty text.
C12_FailedResultHasError ==
    (tool_pc = "done" /\ ~tool_result[1].success) =>
        /\ tool_result[1].error # None
        /\ tool_result[1].error[1] # ""

-----------------------------------------------------------------------------
(* One session of the orchestrator: MinimalAgent.run, one action per       *)
(* statement that touches the context store or awaits the model or a       *)
(* SubAgent, followed by clear_context.                                    *)

MaxSteps == 7
MaxDispatches == 1
MaxSkips == 0

AgentCeiling == 20000
ProgressThreshold == 5

RECURSIVE Doubled(_, _)
Doubled(text, k) == IF k = 0 THEN text ELSE Doubled(text \o text, k - 1)

\* a text longer than the ceiling of the session
LongText == Doubled("x", 15)

SessionPrompt == "You are an agent"
UserRequest == "task"
Reasoning == "r"
ProgressCheckText(n) == "### Progress Check: " \o ToString(n) \o " steps"
CompletionCheckText == "### Task Completion Check"

Thought(reasoning, next_action, tool_name, subagent_command) ==
    [reasoning |-> reasoning, next_action |-> next_action,
     tool_name |-> tool_name, subagent_command |-> subagent_command]

\* the tools and the skills the agent holds, and the names the model may ask for
AgentTools == {"t"}
AgentSkills == {"s"}
AskedTools == AgentTools \cup {"unknown_tool"}
AskedSkills == AgentSkills \cup {"unknown_skill"}
ChainDefinition == "[]"

\* what a SubAgent can return to execute_subagent: kind is the SubAgent's,
\* tangible says whether the result holds files, data or a completion notice
Returned(kind, success, summary, error, tangible) ==
    [kind |-> kind, success |-> success, summary |-> summary, error |-> error,
     tangible |-> tangible]

\* a result of the ToolSubAgent as execute_subagent sees it
ToolReturned(r) ==
    Returned("tool", r.success, r.summary,
             IF r.error = None THEN "None" ELSE r.error[1], FALSE)

\* ToolSubAgent(context_snapshot, self.tools).execute(tool_name, parameters)
AgentToolResults(tool_name) ==
    IF tool_name \notin AgentTools
    THEN {ToolNotFoundResult(tool_name)}
    ELSE {IF b.kind = "returns"
          THEN ToolReturnedResult(tool_name, ToolResult(tool_name, b.status, b.text))
          ELSE ToolRaisedResult(tool_name, b.text) : b \in ToolBehaviours}

\* a SkillResult: its summary, its confirmation, the file it saved ("" for
\* none) and whether it holds data
SkillResult(success, summary, confirmation, file_path, data) ==
    [success |-> success, summary |-> summary, confirmation |-> confirmation,
     file_path |-> file_path, data |-> data]

\* the confirmations that hold the word 'complete'
CompletionNotices == {"Task complete"}

\* SkillResult.get_summary_or_confirmation
SummaryOrConfirmation(sr) ==
    IF sr.summary # "" THEN sr.summary
    ELSE IF sr.confirmation # "" THEN sr.confirmation
    ELSE "Task completed"

\* _is_task_complete on the result of a SubAgent
IsTaskComplete(success, sr) ==
    /\ success
    /\ \/ sr.file_path # ""
       \/ sr.data
       \/ sr.confirmation \in CompletionNotices

\* the SkillResults the skill manager may produce
SkillResults ==
    {SkillResult(TRUE, "saved", "", "out.md", FALSE),
     SkillResult(TRUE, "", "Task complete", "", FALSE),
     SkillResult(TRUE, LongText, "", "", FALSE),
     SkillResult(FALSE, "failed", "", "", FALSE)}

\* SkillSubAgent.execute for a skill the skill manager holds
AgentSkillResults ==
    {Returned("skill", sr.success, SummaryOrConfirmation(sr),
              IF sr.success THEN "None" ELSE SummaryOrConfirmation(sr),
              IsTaskComplete(sr.success, sr)) : sr \in SkillResults}

\* building the SubAgent raises: SkillSubAgent.__init__ for a skill the
\* manager does not hold, and the ChainSubAgent because MinimalAgent has no
\* attribute 'subagents'
BuildRaises(th) ==
    \/ th.next_action = "use_skill" /\ th.subagent_command \notin AgentSkills
    \/ th.next_action = "call_chain"

ExceptionText(th) ==
    IF th.next_action = "use_skill"
    THEN "Skill not found: " \o th.subagent_command
    ELSE "'MinimalAgent' object has no attribute 'subagents'"

SubAgentReturns(th) ==
    IF BuildRaises(th) THEN {}
    ELSE IF th.next_action = "use_tool"
    THEN {ToolReturned(r) : r \in AgentToolResults(th.tool_name)}
    ELSE IF th.next_action = "use_skill"
    THEN AgentSkillResults
    ELSE {}

\* the tool execute() calls that running the SubAgent makes
ToolsInvoked(th) ==
    IF th.next_action = "use_tool" /\ th.tool_name \in AgentTools THEN 1 ELSE 0

HasTangibleResults(sm) ==
    "has_tangible_results" \in DOMAIN sm /\ sm["has_tangible_results"] = TRUE

\* variant: the update is lost
UpdatedSharedMemory_Lost(sm, key, value) == sm

\* update_shared_memory
UpdatedSharedMemory(sm, key, value) ==
    [k \in DOMAIN sm \cup {key} |-> IF k = key THEN value ELSE sm[k]]

\* the decisions the model may return; a session dispatches at most
\* MaxDispatches SubAgents, and more_dispatches more in a longer run
Decisions ==
    {Thought(Reasoning, a, "", "") :
        a \in {"finish", "think", "respond_to_user", "other"}}
    \cup (IF dispatches < MaxDispatches + more_dispatches
          THEN {Thought(Reasoning, "use_tool", n, "") : n \in AskedTools}
               \cup {Thought(Reasoning, "use_skill", "", n) : n \in AskedSkills}
               \cup {Thought(Reasoning, "call_chain", "", ChainDefinition)}
          ELSE {})

\* at most MaxSkips saves of a session fall within min_save_interval of the
\* save before, and quick_saves more in a run whose steps follow each other
\* that fast
RunQuicks == IF skipped < MaxSkips + quick_saves THEN Quicks ELSE {FALSE}

StoreUntouched == UNCHANGED <<ctxVars, chainVars, filterVars, serviceVars>>

OnlySharedMemory ==
    UNCHANGED <<entries, max_context_length, auto_save, dirty, last_save_time,
                session_file, goals_file, errors_file, archives, clock, now,
                lastOp, calls, prevEntries, prevArchives, performed, appended,
                skipped, chainVars, filterVars, serviceVars>>

\* variant: the loop runs one step more
InRange_Inclusive(s, n) == s <= n

\* for step in range(max_steps)
InRange(s, n) == s < n

\* what run returns when the loop is exhausted
IncompleteMessage == "Maximum steps reached. Task incomplete."

\* the progress check of the loop
NeedsProgressCheck ==
    step >= ProgressThreshold /\ ~HasTangibleResults(shared_memory)

RunAddSystemPrompt ==
    /\ run_pc = "start"
    /\ \E q \in RunQuicks : add_system_prompt(SessionPrompt, q)
    /\ run_pc' = "save"
    /\ UNCHANGED <<step, max_steps, thought, subagent_result, run_result,
                   dispatches, thinks, executions, invocations>>

RunSave ==
    /\ run_pc = "save"
    /\ save
    /\ run_pc' = "request"
    /\ UNCHANGED <<step, max_steps, thought, subagent_result, run_result,
                   dispatches, thinks, executions, invocations>>

RunAddUserRequest ==
    /\ run_pc = "request"
    /\ \E q \in RunQuicks : add_user_request(UserRequest, q)
    /\ run_pc' = "goals"
    /\ UNCHANGED <<step, max_steps, thought, subagent_result, run_result,
                   dispatches, thinks, executions, invocations>>

RunSetGoals ==
    /\ run_pc = "goals"
    /\ set_goals(<<"Complete: " \o UserRequest>>)
    /\ run_pc' = "loop"
    /\ UNCHANGED <<step, max_steps, thought, subagent_result, run_result,
                   dispatches, thinks, executions, invocations>>

\* head of an iteration of the loop
RunCompress ==
    /\ run_pc = "loop"
    /\ InRange(step, max_steps)
    /\ \E t \in {now, now + 1} : t <= MaxNow /\ compress_if_needed(t)
    /\ run_pc' = "think"
    /\ UNCHANGED <<step, max_steps, thought, subagent_result, run_result,
                   dispatches, thinks, executions, invocations>>

RunMaxSteps ==
    /\ run_pc = "loop"
    /\ ~InRange(step, max_steps)
    /\ run_pc' = "returned"
    /\ run_result' = Some(IncompleteMessage)
    /\ StoreUntouched
    /\ UNCHANGED <<step, max_steps, thought, subagent_result,
                   dispatches, thinks, executions, invocations>>

\* think() returned a Thought
RunThink ==
    /\ run_pc = "think"
    /\ \E th \in Decisions, q \in RunQuicks :
          /\ add_thought(th.reasoning, q)
          /\ thought' = Some(th)
    /\ thinks' = thinks + 1
    /\ run_pc' = "guard"
    /\ UNCHANGED <<step, max_steps, subagent_result, run_result,
                   dispatches, executions, invocations>>

\* think() raised (the reply of the model is not a Thought): run raises
RunThinkRaises ==
    /\ run_pc = "think"
    /\ thinks' = thinks + 1
    /\ run_pc' = "raised"
    /\ StoreUntouched
    /\ UNCHANGED <<step, max_steps, thought, subagent_result, run_result,
                   dispatches, executions, invocations>>

RunProgressCheck ==
    /\ run_pc = "guard"
    /\ NeedsProgressCheck
    /\ \E q \in RunQuicks : add_system_prompt(ProgressCheckText(step + 1), q)
    /\ run_pc' = "route"
    /\ UNCHANGED <<step, max_steps, thought, subagent_result, run_result,
                   dispatches, thinks, executions, invocations>>

RunNoProgressCheck ==
    /\ run_pc = "guard"
    /\ ~NeedsProgressCheck
    /\ run_pc' = "route"
    /\ StoreUntouched
    /\ UNCHANGED <<step, max_steps, thought, subagent_result, run_result,
                   dispatches, thinks, executions, invocations>>

RunFinish ==
    /\ run_pc = "route"
    /\ thought[1].next_action \in {"finish", "respond_to_user"}
    /\ \E q \in RunQuicks : add_assistant_response(thought[1].reasoning, q)
    /\ run_pc' = "returned"
    /\ run_result' = Some(thought[1].reasoning)
    /\ UNCHANGED <<step, max_steps, thought, subagent_result,
                   dispatches, thinks, executions, invocations>>

\* next_action 'think', or one that execute_subagent does not route
RunContinue ==
    /\ run_pc = "route"
    /\ thought[1].next_action \in {"think", "other"}
    /\ run_pc' = "loop"
    /\ step' = step + 1
    /\ thought' = None
    /\ StoreUntouched
    /\ UNCHANGED <<max_steps, subagent_result, run_result,
                   dispatches, thinks, executions, invocations>>

\* execute_subagent is called: it takes the snapshot and routes the Thought
RunExecuteSubAgent ==
    /\ run_pc = "route"
    /\ thought[1].next_action \in {"use_tool", "use_skill", "call_chain"}
    /\ run_pc' = "execute"
    /\ dispatches' = dispatches + 1
    /\ StoreUntouched
    /\ UNCHANGED <<step, max_steps, thought, subagent_result, run_result,
                   thinks, executions, invocations>>

\* the SubAgent was built and returned a successful result: its summary is
\* logged
RunSubAgentSucceeds ==
    /\ run_pc = "execute"
    /\ \E r \in SubAgentReturns(thought[1]), q \in RunQuicks :
          /\ r.success
          /\ add_assistant_response(r.summary, q)
          /\ subagent_result' = Some(r)
    /\ executions' = executions + 1
    /\ invocations' = invocations + ToolsInvoked(thought[1])
    /\ run_pc' = "complete"
    /\ UNCHANGED <<step, max_steps, thought, run_result, dispatches, thinks>>

\* the SubAgent was built and returned a failed result: the error is logged
\* and the iteration ends
RunSubAgentFails ==
    /\ run_pc = "execute"
    /\ \E r \in SubAgentReturns(thought[1]), q \in RunQuicks :
          /\ ~r.success
          /\ add_assistant_response("SubAgent failed: " \o r.error, q)
    /\ executions' = executions + 1
    /\ invocations' = invocations + ToolsInvoked(thought[1])
    /\ run_pc' = "loop"
    /\ step' = step + 1
    /\ thought' = None
    /\ UNCHANGED <<max_steps, subagent_result, run_result, dispatches, thinks>>

\* building the SubAgent raised: the exception leaves execute_subagent
RunSubAgentRaises ==
    /\ run_pc = "execute"
    /\ BuildRaises(thought[1])
    /\ run_pc' = "except"
    /\ StoreUntouched
    /\ UNCHANGED <<step, max_steps, thought, subagent_result, run_result,
                   dispatches, thinks, executions, invocations>>

\* the except clause of the loop logs the exception and the iteration ends
RunLogException ==
    /\ run_pc = "except"
    /\ \E q \in RunQuicks :
          add_assistant_response("SubAgent execution error: "
                                     \o ExceptionText(thought[1]), q)
    /\ run_pc' = "loop"
    /\ step' = step + 1
    /\ thought' = None
    /\ UNCHANGED <<max_steps, subagent_result, run_result,
                   dispatches, thinks, executions, invocations>>

\* _is_task_complete found tangible results and flags them
RunTaskComplete ==
    /\ run_pc = "complete"
    /\ subagent_result[1].tangible
    /\ shared_memory' = UpdatedSharedMemory(shared_memory, "has_tangible_results", TRUE)
    /\ run_pc' = "nudge"
    /\ OnlySharedMemory
    /\ UNCHANGED <<step, max_steps, thought, subagent_result, run_result,
                   dispatches, thinks, executions, invocations>>

RunTaskNotComplete ==
    /\ run_pc = "complete"
    /\ ~subagent_result[1].tangible
    /\ run_pc' = "metadata"
    /\ StoreUntouched
    /\ UNCHANGED <<step, max_steps, thought, subagent_result, run_result,
                   dispatches, thinks, executions, invocations>>

RunCompletionCheck ==
    /\ run_pc = "nudge"
    /\ \E q \in RunQuicks : add_system_prompt(CompletionCheckText, q)
    /\ run_pc' = "metadata"
    /\ UNCHANGED <<step, max_steps, thought, subagent_result, run_result,
                   dispatches, thinks, executions, invocations>>

\* the metadata keys of the result that are not filtered out go to the
\* shared memory: a skill result carries skill_result_type, a tool result none
RunUpdateSharedMemory ==
    /\ run_pc = "metadata"
    /\ shared_memory' = IF subagent_result[1].kind = "skill"
                        THEN UpdatedSharedMemory(shared_memory,
                                 "subagent_skill_result_type", "SkillResult")
                        ELSE shared_memory
    /\ run_pc' = "loop"
    /\ step' = step + 1
    /\ thought' = None
    /\ subagent_result' = None
    /\ OnlySharedMemory
    /\ UNCHANGED <<max_steps, run_result, dispatches, thinks, executions,
                   invocations>>

\* clear_context, called on the agent once run has returned
ClearContext ==
    /\ run_pc = "returned"
    /\ clear
    /\ run_pc' = "cleared"
    /\ UNCHANGED <<step, max_steps, thought, subagent_result, run_result,
                   dispatches, thinks, executions, invocations>>

\* the max_steps a caller passes to run
StepBudgets == {0, 1, MaxSteps}

\* run has constructed the ContextManager of a fresh session
RunStarts ==
    /\ ChainIdle
    /\ FilterIdle
    /\ entries = <<>>
    /\ max_context_length = AgentCeiling
    /\ auto_save = TRUE
    /\ dirty = FALSE
    /\ last_save_time = 0
    /\ session_file = [exists |-> FALSE, entries |-> <<>>]
    /\ goals_file = [exists |-> FALSE, text |-> ""]
    /\ errors_file = <<>>
    /\ archives = <<>>
    /\ shared_memory = <<>>
    /\ clock = 0
    /\ now = 0
    /\ lastOp = "init"
    /\ calls = 0
    /\ prevEntries = <<>>
    /\ prevArchives = <<>>
    /\ performed = {}
    /\ appended = {}
    /\ skipped = 0
    /\ run_pc = "start"
    /\ step = 0
    /\ max_steps \in StepBudgets
    /\ thought = None
    /\ subagent_result = None
    /\ run_result = None
    /\ dispatches = 0
    /\ thinks = 0
    /\ executions = 0
    /\ invocations = 0

InitRun ==
    /\ RunStarts
    /\ ServicesIdle

\* saves of a run that may come too soon, beyond MaxSkips
MaxQuickSaves == 1

\* a run whose steps may follow each other within min_save_interval
InitRunQuick ==
    /\ RunStarts
    /\ ToolIdle
    /\ GateIdle
    /\ RetryIdle
    /\ ExceptPaceIdle
    /\ quick_saves = MaxQuickSaves
    /\ more_dispatches = 0

NextRun ==
    \/ RunAddSystemPrompt
    \/ RunSave
    \/ RunAddUserRequest
    \/ RunSetGoals
    \/ RunCompress
    \/ RunMaxSteps
    \/ RunThink
    \/ RunThinkRaises
    \/ RunProgressCheck
    \/ RunNoProgressCheck
    \/ RunFinish
    \/ RunContinue
    \/ RunExecuteSubAgent
    \/ RunSubAgentSucceeds
    \/ RunSubAgentFails
    \/ RunSubAgentRaises
    \/ RunLogException
    \/ RunTaskComplete
    \/ RunTaskNotComplete
    \/ RunCompletionCheck
    \/ RunUpdateSharedMemory
    \/ ClearContext

SpecRun == InitRun /\ [][NextRun]_vars

\* run is one coroutine: whenever it can take a step it eventually takes one
\* (every await of the model and of a SubAgent returns or raises)
SpecRunFair == InitRun /\ [][NextRun]_vars /\ WF_vars(NextRun)

SpecRunQuick == InitRunQuick /\ [][NextRun]_vars

\* SubAgents a longer run may dispatch beyond MaxDispatches
MoreDispatches == 1

\* a run that dispatches a further SubAgent
InitRunLong ==
    /\ RunStarts
    /\ ToolIdle
    /\ GateIdle
    /\ RetryIdle
    /\ ExceptPaceIdle
    /\ quick_saves = 0
    /\ more_dispatches = MoreDispatches

SpecRunLong == InitRunLong /\ [][NextRun]_vars

-----------------------------------------------------------------------------
(* Properties of a session, checked under SpecRun *)

\* C2: once the system prompt of the session has been added, the first entry
\* of the log is that system prompt in every state of the session: after the
\* appends, the progress-check and completion-check nudges, the compressions
\* and the clear.
C2_SessionPromptFirst ==
    run_pc \notin {"idle", "start"} =>
        /\ entries # <<>>
        /\ entries[1].entry_type = "system"
        /\ entries[1].content = SessionPrompt

\* C13: the dispatch of a use_tool, use_skill or call_chain decision never
\* raises: execute_subagent always returns a result to the loop, so the
\* except clause of the loop is never entered.
C13_DispatchNeverRaises ==
    run_pc # "except"

UnknownToolDispatched ==
    /\ run_pc = "execute"
    /\ thought[1].next_action = "use_tool"
    /\ thought[1].tool_name \notin AgentTools

UnknownToolFailure(tool_name) == "SubAgent failed: Tool not found: " \o tool_name

\* C14: dispatching a tool name that is not in the tool map gives, without
\* raising and without any tool being invoked, a result with success=false
\* whose error is 'Tool not found: <name>'; the step that follows appends the
\* failure to the log of the orchestrator and the run goes on with the next
\* step of the loop.
C14_UnknownToolFails ==
    [][UnknownToolDispatched =>
          /\ \A r \in AgentToolResults(thought[1].tool_name) :
                /\ ~r.success
                /\ r.error = Some("Tool not found: " \o thought[1].tool_name)
          /\ run_pc' = "loop"
          /\ step' = step + 1
          /\ invocations' = invocations
          /\ Len(entries') = Len(entries) + 1
          /\ entries'[Len(entries')].content = UnknownToolFailure(thought[1].tool_name)
          /\ run_result' = None]_vars

\* an unknown tool was dispatched at the first step and the second step has
\* reached its think
C14_Witness ==
    /\ run_pc = "think"
    /\ step = 1
    /\ dispatches = 1
    /\ invocations = 0
    /\ \E i \in 1..Len(entries) :
          entries[i].content = UnknownToolFailure("unknown_tool")

\* the progress-check entries of the log
ProgressChecks ==
    {i \in 1..Len(entries) :
        \E n \in 1..(MaxSteps + 1) : entries[i].content = ProgressCheckText(n)}

\* C15: while the tangible-results flag is not set, exactly one progress-check
\* entry is injected, at the sixth step: the log never holds a progress check
\* before the sixth step, holds one once the guard of the sixth step has run,
\* and never holds a second one at a later step.
C15_OneProgressCheck ==
    /\ Cardinality(ProgressChecks) <= 1
    /\ \A i \in ProgressChecks :
          entries[i].content = ProgressCheckText(ProgressThreshold + 1)
    /\ (step < ProgressThreshold /\ run_pc \notin {"returned", "cleared"}) =>
          ProgressChecks = {}
    /\ (run_pc = "route" /\ step = ProgressThreshold
            /\ ~HasTangibleResults(shared_memory)) =>
          Cardinality(ProgressChecks) = 1

\* the first step dispatched a skill that succeeded and saved a file
FirstStepProducedFile ==
    /\ step = 1
    /\ dispatches = 1
    /\ executions = 1
    /\ \E i \in 1..Len(entries) :
          entries[i].content = "saved" /\ entries[i].role = "assistant"

\* the route of a finish decision at the second step, after such a first step
FinishAfterFile ==
    (run_pc = "route" /\ FirstStepProducedFile
        /\ thought[1].next_action = "finish") =>
       /\ run_pc' = "returned"
       /\ run_result' = Some(thought[1].reasoning)
       /\ dispatches' = dispatches
       /\ executions' = executions

\* what a step may do once run has returned
AfterReturn ==
    run_pc \in {"returned", "cleared"} =>
       /\ run_pc' \in {"returned", "cleared"}
       /\ run_result' = run_result
       /\ dispatches' = dispatches
       /\ executions' = executions

\* C16: when the first step is a use_skill whose SubAgent succeeds having
\* produced a file, has_tangible_results is set in the shared memory when the
\* second step reaches its think; when the decision of the second step is then
\* finish, run returns the reasoning of that decision, and once run has
\* returned nothing more is dispatched.
C16_TangibleThenFinish ==
    /\ []((run_pc = "think" /\ FirstStepProducedFile) =>
              HasTangibleResults(shared_memory))
    /\ [][FinishAfterFile]_vars
    /\ [][AfterReturn]_vars

\* the second step decided finish after the skill of the first step saved a
\* file, and run has returned
C16_Witness ==
    /\ run_pc = "returned"
    /\ FirstStepProducedFile
    /\ HasTangibleResults(shared_memory)
    /\ thought # None
    /\ thought[1].next_action = "finish"
    /\ run_result = Some(Reasoning)

\* run has returned the reasoning of a finish or respond_to_user decision, or
\* the incomplete message once max_steps steps have elapsed
RunReturned ==
    /\ run_pc \in {"returned", "cleared"}
    /\ \/ /\ thought # None
          /\ thought[1].next_action \in {"finish", "respond_to_user"}
          /\ run_result = Some(thought[1].reasoning)
          /\ step < max_steps
       \/ /\ thought = None
          /\ step = max_steps
          /\ run_result = Some(IncompleteMessage)

\* a reply of the model was not a parseable decision: think raised
ThinkRaised == run_pc = "raised"

\* C17: run makes at most max_steps think calls and at most max_steps
\* dispatches, and, unless a reply of the model is not a parseable decision,
\* it terminates: with the reasoning of a finish or respond_to_user decision,
\* or with the incomplete message once max_steps steps have elapsed.
C17_BoundedAndTerminates ==
    /\ [](thinks <= max_steps /\ dispatches <= max_steps)
    /\ [](run_pc \in {"returned", "cleared"} => RunReturned)
    /\ <>(RunReturned \/ ThinkRaised)

\* a run of one step that dispatched at its only step and returned the
\* incomplete message
C17_Witness ==
    /\ run_pc = "returned"
    /\ max_steps = 1
    /\ thinks = 1
    /\ dispatches = 1
    /\ run_result = Some(IncompleteMessage)

\* the route of a finish or respond_to_user decision
TerminalDecisionEnds ==
    (run_pc = "route"
        /\ thought[1].next_action \in {"finish", "respond_to_user"}) =>
       /\ run_pc' = "returned"
       /\ run_result' = Some(thought[1].reasoning)
       /\ step' = step
       /\ dispatches' = dispatches
       /\ executions' = executions

\* the route of a think decision
ThinkDecisionLoops ==
    (run_pc = "route" /\ thought[1].next_action = "think") =>
       /\ run_pc' = "loop"
       /\ step' = step + 1
       /\ dispatches' = dispatches
       /\ executions' = executions

\* C18: a finish or respond_to_user decision ends the run at its step with
\* its reasoning and nothing is dispatched at or after it; a think decision
\* dispatches nothing and the loop goes to the next step; every use_tool,
\* use_skill or call_chain decision has built and run exactly one SubAgent
\* when its step is over.
C18_OneExecutorPerDispatch ==
    /\ [][TerminalDecisionEnds]_vars
    /\ [][ThinkDecisionLoops]_vars
    /\ [][AfterReturn]_vars
    /\ [](run_pc \in {"loop", "think", "guard", "route", "returned", "cleared"} =>
              executions = dispatches)

-----------------------------------------------------------------------------
(* The admission gate of the model calls: LLMClient._semaphore, created    *)
(* once for the process, and the callers that send a request to the        *)
(* upstream: LLMClient._make_request and LLMClient._stream_chat, which     *)
(* hold the semaphore around the request, and StreamManager.think_stream,  *)
(* which calls the upstream client itself.                                 *)

MaxCallers == 3
MaxConcurrent == 2

Callers == 1..MaxCallers

\* the code path a caller takes to the upstream
GatedPaths == {"_make_request", "_stream_chat"}
CallPaths == GatedPaths \cup {"think_stream"}

\* async with LLMClient._semaphore: a permit is taken; the pacing sleep follows
GateAcquire(c) ==
    /\ gate_pc[c] = "idle"
    /\ gate_path[c] \in GatedPaths
    /\ permits > 0
    /\ permits' = permits - 1
    /\ gate_pc' = [gate_pc EXCEPT ![c] = "pacing"]
    /\ UNCHANGED <<max_concurrent, gate_path, in_flight>>

\* after the sleep of rate_limit_delay the request is sent
GateIssue(c) ==
    /\ gate_pc[c] = "pacing"
    /\ in_flight' = in_flight \cup {c}
    /\ gate_pc' = [gate_pc EXCEPT ![c] = "calling"]
    /\ UNCHANGED <<max_concurrent, permits, gate_path>>

\* the request returned or raised: the with block is left, the permit released
GateRelease(c) ==
    /\ gate_pc[c] = "calling"
    /\ gate_path[c] \in GatedPaths
    /\ in_flight' = in_flight \ {c}
    /\ permits' = permits + 1
    /\ gate_pc' = [gate_pc EXCEPT ![c] = "idle"]
    /\ UNCHANGED <<max_concurrent, gate_path>>

\* variant: the permit is kept while the except clause sleeps
GateRaises_Holding(c) ==
    /\ gate_pc[c] = "calling"
    /\ gate_path[c] = "_make_request"
    /\ in_flight' = in_flight \ {c}
    /\ gate_pc' = [gate_pc EXCEPT ![c] = "backoff"]
    /\ UNCHANGED <<max_concurrent, permits, gate_path>>

\* the request of _make_request raised and its except clause sleeps: the with
\* block was left before the except clause is entered
GateRaises(c) ==
    /\ gate_pc[c] = "calling"
    /\ gate_path[c] = "_make_request"
    /\ in_flight' = in_flight \ {c}
    /\ permits' = permits + 1
    /\ gate_pc' = [gate_pc EXCEPT ![c] = "backoff"]
    /\ UNCHANGED <<max_concurrent, gate_path>>

\* the sleep of the except clause is over: the exception leaves _make_request
GateBackoffOver(c) ==
    /\ gate_pc[c] = "backoff"
    /\ gate_pc' = [gate_pc EXCEPT ![c] = "idle"]
    /\ UNCHANGED <<max_concurrent, permits, gate_path, in_flight>>

\* think_stream sends its request with agent.llm.client
DirectIssue(c) ==
    /\ gate_pc[c] = "idle"
    /\ gate_path[c] = "think_stream"
    /\ in_flight' = in_flight \cup {c}
    /\ gate_pc' = [gate_pc EXCEPT ![c] = "calling"]
    /\ UNCHANGED <<max_concurrent, permits, gate_path>>

\* the request of think_stream returned or raised
DirectDone(c) ==
    /\ gate_pc[c] = "calling"
    /\ gate_path[c] = "think_stream"
    /\ in_flight' = in_flight \ {c}
    /\ gate_pc' = [gate_pc EXCEPT ![c] = "idle"]
    /\ UNCHANGED <<max_concurrent, permits, gate_path>>

OnlyGate ==
    UNCHANGED <<ctxVars, chainVars, filterVars, runVars, toolVars, retryVars,
                auxVars>>

Acquire == (\E c \in Callers : GateAcquire(c)) /\ OnlyGate
Issue == (\E c \in Callers : GateIssue(c)) /\ OnlyGate
Release == (\E c \in Callers : GateRelease(c)) /\ OnlyGate
Raise == (\E c \in Callers : GateRaises(c)) /\ OnlyGate
BackoffOver == (\E c \in Callers : GateBackoffOver(c)) /\ OnlyGate
ThinkStreamIssue == (\E c \in Callers : DirectIssue(c)) /\ OnlyGate
ThinkStreamDone == (\E c \in Callers : DirectDone(c)) /\ OnlyGate

\* the first LLMClient constructed has created the semaphore
InitGate ==
    /\ CtxIdle
    /\ ChainIdle
    /\ FilterIdle
    /\ RunIdle
    /\ ToolIdle
    /\ RetryIdle
    /\ AuxIdle
    /\ max_concurrent \in 1..MaxConcurrent
    /\ permits = max_concurrent
    /\ gate_pc = [c \in Callers |-> "idle"]
    /\ gate_path \in [Callers -> CallPaths]
    /\ in_flight = {}

NextGate ==
    \/ Acquire
    \/ Issue
    \/ Release
    \/ Raise
    \/ BackoffOver
    \/ ThinkStreamIssue
    \/ ThinkStreamDone

SpecGate == InitGate /\ [][NextGate]_vars

-----------------------------------------------------------------------------
(* Properties of the admission gate, checked under SpecGate *)

\* the callers that hold a permit of the semaphore
PermitHolders ==
    {c \in Callers : gate_path[c] \in GatedPaths /\ gate_pc[c] \in {"pacing", "calling"}}

\* C19: at every moment the model calls in flight are at most max_concurrent
\* and each of them is made by a caller that holds a permit of the semaphore.
C19_InFlightWithinCap ==
    /\ Cardinality(in_flight) <= max_concurrent
    /\ in_flight \subseteq PermitHolders

\* C40: every call made through the gate gives its permit back when its
\* request ends, by returning or by raising, and holds none while its except
\* clause sleeps: the permits out are those of the callers inside the with
\* block, and once every call has ended all permits are available.
C40_PermitsReturned ==
    /\ permits + Cardinality(PermitHolders) = max_concurrent
    /\ (\A c \in Callers : gate_pc[c] = "idle") => permits = max_concurrent

\* a caller sleeps out its backoff while another holds the only permit
C40_Witness ==
    /\ max_concurrent = 1
    /\ \E c, d \in Callers :
          /\ gate_pc[c] = "backoff"
          /\ gate_pc[d] = "calling" /\ gate_path[d] \in GatedPaths

-----------------------------------------------------------------------------
(* One model call through LLMClient._make_request: the loop over the       *)
(* attempts, the request to the upstream and the three except clauses.     *)
(* What the upstream answers to the successive requests is an input.       *)

MaxRetries == 2

\* an answer of the upstream: the completion, RateLimitError, APIError with a
\* status of 500 or more, APIError with a lower status, another exception
Answers == {"ok", "rate_limit", "server_error", "client_error", "other"}

Transient(answer) == answer \in {"rate_limit", "server_error"}

RECURSIVE AnswerScripts(_)
AnswerScripts(n) ==
    IF n = 0 THEN {<<>>}
    ELSE {Append(sc, a) : sc \in AnswerScripts(n - 1), a \in Answers}

\* the condition under which an except clause sleeps before it re-raises
SleepsBeforeRaise(answer, k, retries) ==
    IF answer = "client_error" THEN FALSE ELSE k < retries

OnlyRetry ==
    UNCHANGED <<ctxVars, chainVars, filterVars, runVars, toolVars, gateVars,
                auxVars>>

\* the request of the attempt returns the completion: _make_request returns it
RequestReturns ==
    /\ retry_pc = "request"
    /\ upstream[attempts_made + 1] = "ok"
    /\ attempts_made' = attempts_made + 1
    /\ retry_result' = Some("ok")
    /\ retry_pc' = "returned"
    /\ UNCHANGED <<max_retries, upstream, attempt, backoffs>>
    /\ OnlyRetry

\* the request of the attempt raises: an except clause is entered
RequestRaises ==
    /\ retry_pc = "request"
    /\ upstream[attempts_made + 1] # "ok"
    /\ attempts_made' = attempts_made + 1
    /\ retry_pc' = "except"
    /\ UNCHANGED <<max_retries, upstream, attempt, backoffs, retry_result>>
    /\ OnlyRetry

\* the except clause computes the delay and sleeps
BackoffSleep ==
    /\ retry_pc = "except"
    /\ SleepsBeforeRaise(upstream[attempts_made], attempt, max_retries)
    /\ backoffs' = backoffs + 1
    /\ retry_pc' = "raise"
    /\ UNCHANGED <<max_retries, upstream, attempt, attempts_made, retry_result>>
    /\ OnlyRetry

\* the except clause does not sleep
NoBackoff ==
    /\ retry_pc = "except"
    /\ ~SleepsBeforeRaise(upstream[attempts_made], attempt, max_retries)
    /\ retry_pc' = "raise"
    /\ UNCHANGED <<max_retries, upstream, attempt, attempts_made, backoffs,
                   retry_result>>
    /\ OnlyRetry

\* the raise that ends each except clause: the exception leaves _make_request
Reraise ==
    /\ retry_pc = "raise"
    /\ retry_result' = Some(upstream[attempts_made])
    /\ retry_pc' = "raised"
    /\ UNCHANGED <<max_retries, upstream, attempt, attempts_made, backoffs>>
    /\ OnlyRetry

\* _make_request is entered: attempt is the first value of the range
InitRetry ==
    /\ CtxIdle
    /\ ChainIdle
    /\ FilterIdle
    /\ RunIdle
    /\ ToolIdle
    /\ GateIdle
    /\ AuxIdle
    /\ retry_pc = "request"
    /\ max_retries \in 0..MaxRetries
    /\ upstream \in AnswerScripts(MaxRetries + 1)
    /\ attempt = 0
    /\ attempts_made = 0
    /\ backoffs = 0
    /\ retry_result = None

NextRetry ==
    \/ RequestReturns
    \/ RequestRaises
    \/ BackoffSleep
    \/ NoBackoff
    \/ Reraise

SpecRetry == InitRetry /\ [][NextRetry]_vars

-----------------------------------------------------------------------------
(* Properties of a model call, checked under SpecRetry *)

\* C20: a call is attempted at most max_retries + 1 times; an attempt is
\* followed by another only when it failed with a transient error (rate limit
\* or 5xx), and then after a backoff; a transient failure is surfaced to the
\* caller only once max_retries + 1 attempts have been made.
C20_RetriesTransient ==
    /\ attempts_made <= max_retries + 1
    /\ \A i \in 1..(attempts_made - 1) : Transient(upstream[i])
    /\ backoffs >= attempts_made - 1
    /\ (retry_pc = "raised" /\ Transient(retry_result[1])) =>
          attempts_made = max_retries + 1

-----------------------------------------------------------------------------
(* Shared memory of the context store (src/src/context.py): a flat map     *)
(* kept beside the log.  The store of this specification starts empty or   *)
(* on a saved session longer than the ceiling, and is driven through its   *)
(* log operations and its shared-memory operations in any order.           *)

\* number of store operations explored when shared memory is exercised
MemCalls == 3

MemKeys == {"k1", "k2"}
MemValues == {"v1", "v2"}
MemDefaults == {"none", "d"}

\* get_shared_memory: self.shared_memory.get(key, default)
GetSharedMemory(sm, key, default) ==
    IF key \in DOMAIN sm THEN sm[key] ELSE default

\* variant: the snapshot holds the map of the store itself
SnapshotOf_Alias(sm) == [aliased |-> TRUE, map |-> sm]

\* get_snapshot: "shared_memory": self.shared_memory.copy()
SnapshotOf(sm) == [aliased |-> FALSE, map |-> sm]

\* what a holder of the snapshot reads in its "shared_memory"
SnapshotMemory ==
    IF snapshot[1].aliased THEN shared_memory ELSE snapshot[1].map

\* bookkeeping of a call that is not a log operation
MemCalled(op) ==
    /\ lastOp' = op
    /\ calls' = calls + 1
    /\ prevEntries' = entries
    /\ prevArchives' = archives
    /\ performed' = performed \cup {op}
    /\ UNCHANGED <<entries, max_context_length, auto_save, dirty,
                   last_save_time, session_file, goals_file, errors_file,
                   archives, clock, now, appended, skipped>>
    /\ UNCHANGED <<chainVars, filterVars, runVars, toolVars, gateVars,
                   retryVars, exceptMemVars>>

\* update_shared_memory: self.shared_memory[key] = value
CallUpdateSharedMemory ==
    /\ calls < MemCalls
    /\ \E k \in MemKeys, v \in MemValues :
          /\ shared_memory' = UpdatedSharedMemory(shared_memory, k, v)
          /\ memory_writes' = Append(memory_writes, <<"update", k, v>>)
    /\ MemCalled("update_shared_memory")
    /\ UNCHANGED <<snapshot, memory_at_snapshot>>

\* clear_shared_memory: self.shared_memory.clear()
CallClearSharedMemory ==
    /\ calls < MemCalls
    /\ shared_memory' = <<>>
    /\ memory_writes' = Append(memory_writes, <<"clear">>)
    /\ MemCalled("clear_shared_memory")
    /\ UNCHANGED <<snapshot, memory_at_snapshot>>

\* get_snapshot
CallGetSnapshot ==
    /\ calls < MemCalls
    /\ snapshot' = Some(SnapshotOf(shared_memory))
    /\ memory_at_snapshot' = Some(shared_memory)
    /\ MemCalled("get_snapshot")
    /\ UNCHANGED <<shared_memory, memory_writes>>

MemSessions == {<<>>, LoadedEntries(1, MaxLoaded)}

InitMem ==
    /\ entries \in MemSessions
    /\ max_context_length = Ceiling
    /\ auto_save \in BOOLEAN
    /\ dirty = FALSE
    /\ last_save_time = 0
    /\ session_file = IF entries = <<>>
                      THEN [exists |-> FALSE, entries |-> <<>>]
                      ELSE [exists |-> TRUE, entries |-> entries]
    /\ goals_file = [exists |-> FALSE, text |-> ""]
    /\ errors_file = <<>>
    /\ archives = <<>>
    /\ shared_memory = <<>>
    /\ clock = Len(entries)
    /\ now = 0
    /\ lastOp = "init"
    /\ calls = 0
    /\ prevEntries = entries
    /\ prevArchives = archives
    /\ performed = {}
    /\ appended = EntrySet(entries)
    /\ skipped = 0
    /\ ServicesIdle
    /\ ChainIdle
    /\ FilterIdle
    /\ RunIdle

NextMem ==
    \/ CallAddSystemPrompt
    \/ CallAddUserRequest
    \/ CallAddAssistantResponse
    \/ CallAddToolResult
    \/ CallAddThought
    \/ CallSetGoals
    \/ CallCompressIfNeeded
    \/ CallClear
    \/ CallSave
    \/ CallUpdateSharedMemory
    \/ CallClearSharedMemory
    \/ CallGetSnapshot

SpecMem == InitMem /\ [][NextMem]_vars

-----------------------------------------------------------------------------
(* Properties of shared memory, checked under SpecMem *)

LogOperations ==
    {"add_system_prompt", "add_user_request", "add_assistant_response",
     "add_tool_result", "add_thought", "set_goals", "compress_if_needed",
     "clear", "save"}

MemoryOperations == {"update_shared_memory", "clear_shared_memory"}

\* the value last written for the key by the calls ws, None when the key was
\* never written or shared memory was cleared after its last write
RECURSIVE LastWritten(_, _)
LastWritten(ws, key) ==
    IF ws = <<>> THEN None
    ELSE LET w == ws[Len(ws)] IN
         IF w[1] = "clear" THEN None
         ELSE IF w[2] = key THEN Some(w[3])
         ELSE LastWritten(SubSeq(ws, 1, Len(ws) - 1), key)

ExpectedRead(key, default) ==
    IF LastWritten(memory_writes, key) = None THEN default
    ELSE LastWritten(memory_writes, key)[1]

MemoryLeavesLog ==
    (calls' = calls + 1 /\ lastOp' \in MemoryOperations) =>
        /\ entries' = entries
        /\ session_file' = session_file
        /\ archives' = archives

LogLeavesMemory ==
    (calls' = calls + 1 /\ lastOp' \in LogOperations) =>
        shared_memory' = shared_memory

ReadsLastWritten ==
    \A k \in MemKeys, d \in MemDefaults :
        GetSharedMemory(shared_memory, k, d) = ExpectedRead(k, d)

SnapshotIsACopy ==
    snapshot # None => SnapshotMemory = memory_at_snapshot[1]

\* C25: the shared-memory operations leave the log (live, saved and archived)
\* as it is and the log operations leave shared memory as it is; a read
\* returns the value last written for the key, or the default of the caller
\* when the key was never written or memory was cleared since; the map held
\* by a snapshot stays what shared memory was when the snapshot was taken.
C25_MemoryIndependentOfLog ==
    /\ [][MemoryLeavesLog]_vars
    /\ [][LogLeavesMemory]_vars
    /\ []ReadsLastWritten
    /\ []SnapshotIsACopy

\* a snapshot taken of a non-empty memory that was then cleared
C25_Witness ==
    /\ snapshot # None
    /\ memory_at_snapshot[1] # <<>>
    /\ lastOp = "clear_shared_memory"
    /\ shared_memory = <<>>
    /\ SnapshotMemory # <<>>

-----------------------------------------------------------------------------
(* The skill registry (src/src/skills/manager.py, loader.py, models.py):   *)
(* a manager constructed on directories of skill folders, reloaded any     *)
(* number of times while folders are added to and removed from disk.       *)

MaxReloads == 2
MaxDiskChanges == 1

\* the folders a scanned directory may hold: two skills of the same name, a
\* third skill, and a folder whose SKILL.md is missing or has no frontmatter
SkillFolders ==
    { [folder |-> "f1", name |-> "a", loads |-> TRUE],
      [folder |-> "f2", name |-> "a", loads |-> TRUE],
      [folder |-> "f3", name |-> "b", loads |-> TRUE],
      [folder |-> "f4", name |-> "c", loads |-> FALSE] }

\* the scanned directories: skills_dirs, then builtin_skills_dir
ScannedDirs == 1..2

\* the orders in which iterdir may list a set of folders
ListingOrders(S) ==
    {o \in [1..Cardinality(S) -> S] : \A i, j \in DOMAIN o : i # j => o[i] # o[j]}

\* load_skill: the Skill of a folder
LoadedSkill(d, f) == [name |-> f.name, base_dir |-> <<d, f.folder>>]

\* load_skills_from_directory: the skills of the folders that load, as listed
RECURSIVE LoadSkillsFromDirectory(_, _)
LoadSkillsFromDirectory(d, listing) ==
    IF listing = <<>> THEN <<>>
    ELSE (IF Head(listing).loads THEN <<LoadedSkill(d, Head(listing))>> ELSE <<>>)
         \o LoadSkillsFromDirectory(d, Tail(listing))

\* SkillRegistry.add_skill: self.skills[skill.name] = skill
AddSkill(reg, skill) ==
    [n \in DOMAIN reg \cup {skill.name} |-> IF n = skill.name THEN skill ELSE reg[n]]

RECURSIVE AddSkills(_, _)
AddSkills(reg, skills) ==
    IF skills = <<>> THEN reg
    ELSE AddSkills(AddSkill(reg, Head(skills)), Tail(skills))

\* _load_all_skills on a registry, the directories being listed as listings
LoadAllSkills(reg, listings) ==
    AddSkills(AddSkills(reg, LoadSkillsFromDirectory(1, listings[1])),
              LoadSkillsFromDirectory(2, listings[2]))

\* the listings iterdir may give of the directories
Listings(dirs) ==
    {<<o1, o2>> : o1 \in ListingOrders(dirs[1]), o2 \in ListingOrders(dirs[2])}

\* SkillRegistry.get_skill_names: list(self.skills.keys()), as a set
GetSkillNames(reg) == DOMAIN reg

\* variant: reload scans into the registry it already has
FreshRegistry_Kept(reg) == reg

\* reload_skills: self.registry = SkillRegistry()
FreshRegistry(reg) == <<>>

OnlyRegistry == UNCHANGED exceptRegVars

\* reload_skills
ReloadSkills ==
    /\ reloads < MaxReloads
    /\ \E l \in Listings(skill_dirs) :
          registry' = LoadAllSkills(FreshRegistry(registry), l)
    /\ reloads' = reloads + 1
    /\ scanned_dirs' = skill_dirs
    /\ UNCHANGED <<skill_dirs, initial_names, disk_changes>>
    /\ OnlyRegistry

\* a skill folder is put into a scanned directory
AddSkillFolder ==
    /\ disk_changes < MaxDiskChanges
    /\ \E d \in ScannedDirs : \E f \in SkillFolders \ skill_dirs[d] :
          skill_dirs' = [skill_dirs EXCEPT ![d] = @ \cup {f}]
    /\ disk_changes' = disk_changes + 1
    /\ UNCHANGED <<registry, initial_names, reloads, scanned_dirs>>
    /\ OnlyRegistry

\* a skill folder is removed from a scanned directory
RemoveSkillFolder ==
    /\ disk_changes < MaxDiskChanges
    /\ \E d \in ScannedDirs : \E f \in skill_dirs[d] :
          skill_dirs' = [skill_dirs EXCEPT ![d] = @ \ {f}]
    /\ disk_changes' = disk_changes + 1
    /\ UNCHANGED <<registry, initial_names, reloads, scanned_dirs>>
    /\ OnlyRegistry

\* SkillManager.__init__: an empty registry, then _load_all_skills
InitReg ==
    /\ CtxIdle
    /\ ChainIdle
    /\ FilterIdle
    /\ RunIdle
    /\ ToolIdle
    /\ GateIdle
    /\ RetryIdle
    /\ ExceptRegIdle
    /\ skill_dirs \in [ScannedDirs -> SUBSET SkillFolders]
    /\ registry \in {LoadAllSkills(<<>>, l) : l \in Listings(skill_dirs)}
    /\ initial_names = GetSkillNames(registry)
    /\ reloads = 0
    /\ disk_changes = 0
    /\ scanned_dirs = skill_dirs

NextReg ==
    \/ ReloadSkills
    \/ AddSkillFolder
    \/ RemoveSkillFolder

SpecReg == InitReg /\ [][NextReg]_vars

-----------------------------------------------------------------------------
(* Properties of the skill registry, checked under SpecReg *)

\* the skill is that of a folder the last scan found and could load
FoundByScan(skill) ==
    \E d \in ScannedDirs : \E f \in scanned_dirs[d] :
        f.loads /\ skill = LoadedSkill(d, f)

\* the names of the folders that load in the directories as last scanned
ScannedNames ==
    {f.name : f \in {g \in scanned_dirs[1] \cup scanned_dirs[2] : g.loads}}

\* C23: while the directories are unchanged, the names in the registry after
\* any number of reloads are the names the initial load gave; after a reload
\* the registry holds exactly one skill for each name the re-scan found, each
\* a skill of a folder the re-scan found, and nothing else.
C23_ReloadIdempotent ==
    /\ (reloads > 0 /\ disk_changes = 0) =>
          GetSkillNames(registry) = initial_names
    /\ reloads > 0 =>
          /\ GetSkillNames(registry) = ScannedNames
          /\ \A n \in DOMAIN registry : FoundByScan(registry[n])

\* reloaded twice on unchanged directories holding two skills of one name
C23_Witness ==
    /\ reloads = MaxReloads
    /\ disk_changes = 0
    /\ initial_names = {"a", "b"}
    /\ Cardinality({f \in skill_dirs[1] : f.name = "a"}) = 2

-----------------------------------------------------------------------------
(* SkillManager.invoke (src/src/skills/manager.py): the activation of a    *)
(* skill on behalf of the model, on a registry of four skills.             *)

Skill(name, allowed_tools, disable_model_invocation) ==
    [name |-> name, allowed_tools |-> allowed_tools,
     disable_model_invocation |-> disable_model_invocation]

InvokeRegistry ==
    LET skills == { Skill("s1", <<"T1">>, FALSE),
                    Skill("s2", <<"T1">>, TRUE),
                    Skill("s3", <<>>, FALSE),
                    Skill("s4", <<"T1", "T2">>, FALSE) } IN
    [n \in {sk.name : sk \in skills} |-> CHOOSE sk \in skills : sk.name = n]

InvokeCommands == {"s1", "s2", "s3", "s4", "zz"}
InvokeRequests == {"r1", "r2"}
InvokeToolNames == {"T1", "T2", "T3"}

\* get_context_messages: the activation notice, then the hidden instructions
ContextMessages(skill, user_request, tools) ==
    << [role |-> "user", content |-> <<"notice", skill.name>>, meta |-> FALSE],
       [role |-> "user",
        content |-> <<"prompt", skill.name, user_request, DOMAIN tools>>,
        meta |-> TRUE, is_meta |-> TRUE] >>

InvokeReturn(messages, error) == [messages |-> messages, error |-> error]

OnlyInvoke == UNCHANGED exceptInvokeVars

Invoked(result) ==
    /\ invoke_pc = "ready"
    /\ invoke_result' = Some(result)
    /\ invoke_pc' = "done"
    /\ UNCHANGED <<invoke_skills, invoke_command, invoke_request, invoke_tools>>
    /\ OnlyInvoke

\* the skill is not in the registry
InvokeNotFound ==
    /\ invoke_command \notin DOMAIN invoke_skills
    /\ Invoked(InvokeReturn(None, Some("Skill not found")))

\* the skill is for manual invocation only
InvokeDisabled ==
    /\ invoke_command \in DOMAIN invoke_skills
    /\ invoke_skills[invoke_command].disable_model_invocation
    /\ Invoked(InvokeReturn(None, Some("cannot be invoked by model")))

\* a declared tool is not among the filtered tools
InvokeMissingTools ==
    /\ invoke_command \in DOMAIN invoke_skills
    /\ LET skill == invoke_skills[invoke_command]
           filtered == filter_allowed_tools(skill.allowed_tools, invoke_tools) IN
       /\ ~skill.disable_model_invocation
       /\ MissingTools(skill.allowed_tools, filtered) # {}
       /\ Invoked(InvokeReturn(None, Some("requires tools that are not available")))

\* the two context messages are returned
InvokeMessages ==
    /\ invoke_command \in DOMAIN invoke_skills
    /\ LET skill == invoke_skills[invoke_command]
           filtered == filter_allowed_tools(skill.allowed_tools, invoke_tools) IN
       /\ ~skill.disable_model_invocation
       /\ MissingTools(skill.allowed_tools, filtered) = {}
       /\ Invoked(InvokeReturn(
              Some(ContextMessages(skill, invoke_request, filtered)), None))

InitInvoke ==
    /\ CtxIdle
    /\ ChainIdle
    /\ FilterIdle
    /\ RunIdle
    /\ ToolIdle
    /\ GateIdle
    /\ RetryIdle
    /\ ExceptInvokeIdle
    /\ invoke_pc = "ready"
    /\ invoke_skills = InvokeRegistry
    /\ invoke_command \in InvokeCommands
    /\ invoke_request \in InvokeRequests
    /\ invoke_tools \in {[n \in S |-> n] : S \in SUBSET InvokeToolNames}
    /\ invoke_result = None

NextInvoke ==
    \/ InvokeNotFound
    \/ InvokeDisabled
    \/ InvokeMissingTools
    \/ InvokeMessages

SpecInvoke == InitInvoke /\ [][NextInvoke]_vars

-----------------------------------------------------------------------------
(* Properties of invoke, checked under SpecInvoke *)

\* the skill asked for does not exist, is gated, or declares a tool that the
\* caller did not supply
InvocationRefused ==
    \/ invoke_command \notin DOMAIN invoke_skills
    \/ invoke_skills[invoke_command].disable_model_invocation
    \/ \E i \in DOMAIN invoke_skills[invoke_command].allowed_tools :
          invoke_skills[invoke_command].allowed_tools[i] \notin DOMAIN invoke_tools

\* C24: invoke returns an error and no messages exactly when the skill does
\* not exist, is gated against model invocation or declares a tool that was
\* not supplied; otherwise it returns no error and exactly two messages, the
\* first with meta false and the second with meta true.
C24_MessagesOrError ==
    invoke_pc = "done" =>
        LET r == invoke_result[1] IN
        IF InvocationRefused
        THEN r.messages = None /\ r.error # None
        ELSE /\ r.error = None
             /\ r.messages # None
             /\ Len(r.messages[1]) = 2
             /\ r.messages[1][1].meta = FALSE
             /\ r.messages[1][2].meta = TRUE

\* a skill declaring two tools is activated with three tools supplied
C24_Witness ==
    /\ invoke_pc = "done"
    /\ invoke_command = "s4"
    /\ DOMAIN invoke_tools = InvokeToolNames
    /\ invoke_result[1].error = None
    /\ Len(invoke_result[1].messages[1]) = 2

-----------------------------------------------------------------------------
(* The context stores of one session (src/src/agent.py, subagents,         *)
(* skills/manager.py, context.py): the store of the orchestrator and the   *)
(* store each executor constructs for itself.  An entry carries the        *)
(* executor that wrote it (0 is the orchestrator).                         *)

MaxExecutors == 3
MaxOrchestratorEntries == 1

\* the steps a dispatched chain may hold
ChainShapes == {<<>>, <<"tool">>, <<"chain">>, <<"tool", "chain">>}

\* ContextManager.__init__: workspace_dir / session_<id> when a session_id is
\* given, workspace_dir otherwise; the session file is named after it
SessionPath(workspace_dir, session_id) ==
    IF session_id # "" THEN <<workspace_dir, "session_" \o session_id>>
    ELSE <<workspace_dir, "">>

\* _load_session: the entries of the session file when it exists
LoadSession(files, path) ==
    IF path \in DOMAIN files THEN files[path] ELSE <<>>

\* ContextManager(workspace_dir, auto_save, session_id) constructed by owner
NewStore(files, owner, kind, workspace_dir, saves, session_id) ==
    LET path == SessionPath(workspace_dir, session_id) IN
    [owner |-> owner, kind |-> kind, path |-> path, auto_save |-> saves,
     loaded |-> LoadSession(files, path), entries |-> LoadSession(files, path)]

WrittenFile(files, path, es) ==
    [q \in DOMAIN files \cup {path} |-> IF q = path THEN es ELSE files[q]]

IsoEntry(writer, text) == [writer |-> writer, text |-> text]

OnlyIso == UNCHANGED exceptIsoVars

\* the orchestrator appends to its store, which saves at once
OrchestratorAppends ==
    /\ Len(iso_stores[1].entries) < MaxOrchestratorEntries
    /\ LET es == Append(iso_stores[1].entries, IsoEntry(0, "request")) IN
       /\ iso_stores' = [iso_stores EXCEPT ![1].entries = es]
       /\ iso_files' = WrittenFile(iso_files, iso_stores[1].path, es)
    /\ UNCHANGED iso_executors
    /\ OnlyIso

\* ToolSubAgent.__init__: ContextManager(auto_save=False, session_id="tool_<uuid>")
ToolStore(files, e) ==
    NewStore(files, e, "tool", "workspace", FALSE, "tool_" \o ToString(e))

\* ChainSubAgent.__init__: ContextManager()
ChainStore(files, e) == NewStore(files, e, "chain", "workspace", TRUE, "")

\* the stores constructed for a chain and, in order, for its steps; a nested
\* chain holds no step
ChainStores(files, e, shape) ==
    <<ChainStore(files, e)>> \o
    [i \in 1..Len(shape) |->
        IF shape[i] = "tool" THEN ToolStore(files, e + i)
        ELSE ChainStore(files, e + i)]

\* use_tool: a ToolSubAgent is created and executes
DispatchTool ==
    /\ iso_executors < MaxExecutors
    /\ iso_stores' = Append(iso_stores, ToolStore(iso_files, iso_executors + 1))
    /\ iso_executors' = iso_executors + 1
    /\ UNCHANGED iso_files
    /\ OnlyIso

\* use_skill: SkillSubAgent.__init__ makes ContextManager() and writes the
\* skill prompt into it; the first write saves the session, the second is
\* saved unless it falls within min_save_interval; execute_skill then makes
\* ContextManager(workspace_dir="workspace", auto_save=False) and writes the
\* skill prompt into it
DispatchSkill ==
    /\ iso_executors < MaxExecutors
    /\ LET e == iso_executors + 1
           own == NewStore(iso_files, e, "skill", "workspace", TRUE, "")
           prompt == <<IsoEntry(e, "skill prompt")>>
           notice == <<IsoEntry(e, "notice")>>
           written == own.entries \o prompt \o notice
       IN \E quick \in BOOLEAN :
            LET saved == IF quick THEN own.entries \o prompt ELSE written
                files == WrittenFile(iso_files, own.path, saved)
                loop == NewStore(files, e, "skill loop", "workspace", FALSE, "")
            IN /\ iso_files' = files
               /\ iso_stores' = iso_stores \o
                     << [own EXCEPT !.entries = written],
                        [loop EXCEPT !.entries = @ \o prompt] >>
    /\ iso_executors' = iso_executors + 1
    /\ OnlyIso

\* call_chain: a ChainSubAgent is created, and one executor for each step
DispatchChain ==
    /\ \E shape \in ChainShapes :
          /\ iso_executors + 1 + Len(shape) <= MaxExecutors
          /\ iso_stores' = iso_stores \o
                ChainStores(iso_files, iso_executors + 1, shape)
          /\ iso_executors' = iso_executors + 1 + Len(shape)
    /\ UNCHANGED iso_files
    /\ OnlyIso

\* MinimalAgent.run: ContextManager(workspace_dir, auto_save=True,
\* session_id=<uuid>) on a workspace that holds no session yet or the
\* session file left by the executors of an earlier session
InitIso ==
    /\ CtxIdle
    /\ ChainIdle
    /\ FilterIdle
    /\ RunIdle
    /\ ToolIdle
    /\ GateIdle
    /\ RetryIdle
    /\ ExceptIsoIdle
    /\ iso_files = <<>>
    /\ iso_stores = <<NewStore(<<>>, 0, "orchestrator", "workspace", TRUE, "run")>>
    /\ iso_executors = 0

NextIso ==
    \/ OrchestratorAppends
    \/ DispatchTool
    \/ DispatchSkill
    \/ DispatchChain

SpecIso == InitIso /\ [][NextIso]_vars

-----------------------------------------------------------------------------
(* Properties of the stores, checked under SpecIso *)

EntriesOf(es) == {es[i] : i \in DOMAIN es}

\* the entries a store holds, live or persisted
HeldBy(st) == EntriesOf(st.entries) \cup EntriesOf(LoadSession(iso_files, st.path))

\* C21: every store is constructed empty and under a path no other store
\* has, and the entries it holds, live or in its session file, were all
\* written by the executor that owns it (the orchestrator for its own).
C21_StoresIsolated ==
    /\ \A i \in DOMAIN iso_stores : iso_stores[i].loaded = <<>>
    /\ \A i, j \in DOMAIN iso_stores :
          i # j => iso_stores[i].path # iso_stores[j].path
    /\ \A i \in DOMAIN iso_stores :
          \A en \in HeldBy(iso_stores[i]) : en.writer = iso_stores[i].owner

-----------------------------------------------------------------------------
(* SkillManager.execute_skill (src/src/skills/manager.py; the same loop is *)
(* SkillSubAgent.execute in src/agentic/src/subagents/skill_subagent.py):  *)
(* one execution of a skill, the model and the tools answering anything.   *)

\* variant: one more step is allowed
max_skill_steps_More == 20 + 1

\* max_skill_steps
max_skill_steps == 20
\* errors at which the loop is abandoned
MaxSkillErrors == 3
\* tool calls extracted from one response (at most one per pattern)
MaxResponseCalls == 1

ExecToolNames == {"file_write", "file_read"}

\* what the skill asked for declares, None when there is no such skill; one
\* of the skills is for manual invocation only
ExecSkills ==
    {None, Some(Skill("s", <<"file_write">>, TRUE))}
    \cup {Some(Skill("s", a, FALSE)) :
            a \in {<<>>, <<"file_write">>, <<"file_write", "file_read">>}}

\* what a tool call named in a response does: the tool is not among the
\* filtered tools, or its execute returns a ToolResult with status success or
\* failed, or raises
CallOutcomes(name, tools) ==
    IF name \in tools THEN {"success", "failed", "raises"} ELSE {"absent"}

\* the tool calls _execute_skill_tools extracts from a response, each with
\* what executing it does
RECURSIVE ExtractedCalls(_, _)
ExtractedCalls(n, tools) ==
    IF n = 0 THEN {<<>>}
    ELSE {<<>>} \cup
         {<<[tool_name |-> t, outcome |-> o]>> \o rest :
             t \in ExecToolNames \cup {"other"},
             o \in {"success", "failed", "raises", "absent"},
             rest \in ExtractedCalls(n - 1, tools)}

WellFormedCalls(cs, tools) ==
    \A i \in DOMAIN cs : cs[i].outcome \in CallOutcomes(cs[i].tool_name, tools)

\* _execute_skill_tools: the record of an executed call; "success" is True
\* whenever execute returned, False when it raised
CallRecord(call) ==
    [tool_name |-> call.tool_name, success |-> call.outcome # "raises"]

\* the records of the calls of a response: a tool that is not available is
\* not executed and leaves no record
RECURSIVE CallRecords(_)
CallRecords(cs) ==
    IF cs = <<>> THEN <<>>
    ELSE (IF Head(cs).outcome = "absent" THEN <<>>
          ELSE <<[record |-> CallRecord(Head(cs)), outcome |-> Head(cs).outcome]>>)
         \o CallRecords(Tail(cs))

\* files_saved grows by one for each record of file_write with success True
SavesFile(r) == r.record.tool_name = "file_write" /\ r.record.success

CountOf(rs, P(_)) == Cardinality({i \in DOMAIN rs : P(rs[i])})

Unearned(r) == SavesFile(r) /\ r.outcome # "success"

\* success = len(errors) < 3 and (len(files_saved) > 0 or len(outputs) > 0);
\* nothing is ever put into outputs
SkillSuccess(nErrors, nFiles) == nErrors < MaxSkillErrors /\ nFiles > 0

CompiledResult(nErrors, nFiles, nSteps) ==
    [success |-> SkillSuccess(nErrors, nFiles),
     confirmation |-> IF SkillSuccess(nErrors, nFiles)
                      THEN "execution complete" ELSE "execution failed",
     missing |-> {}, errors |-> nErrors, files_created |-> nFiles,
     execution_steps |-> nSteps]

OnlyExec == UNCHANGED exceptExecVars

\* the end of an iteration: the loop is left on a break or when the counter
\* has reached max_skill_steps, and the result is compiled
Iterated(nErrors, nFiles, break) ==
    /\ execution_steps' = execution_steps + 1
    /\ model_calls' = model_calls + 1
    /\ exec_errors' = nErrors
    /\ files_saved' = nFiles
    /\ IF break \/ execution_steps + 1 >= max_skill_steps
       THEN /\ exec_pc' = "done"
            /\ exec_result' = Some(CompiledResult(nErrors, nFiles,
                                                  execution_steps + 1))
       ELSE /\ exec_pc' = "loop"
            /\ exec_result' = exec_result
    /\ UNCHANGED <<exec_skill, exec_tools>>
    /\ OnlyExec

\* there is no such skill
ExecSkillNotFound ==
    /\ exec_pc = "start"
    /\ exec_skill = None
    /\ exec_pc' = "done"
    /\ exec_result' = Some([success |-> FALSE, confirmation |-> "Skill not found",
                            missing |-> {}, errors |-> 0, files_created |-> 0,
                            execution_steps |-> 0])
    /\ UNCHANGED <<exec_skill, exec_tools, execution_steps, exec_errors,
                   files_saved, unearned_file, tool_executed, model_calls>>
    /\ OnlyExec

\* a declared tool is not among the tools supplied
ExecMissingTools ==
    /\ exec_pc = "start"
    /\ exec_skill # None
    /\ LET allowed == exec_skill[1].allowed_tools
           filtered == filter_allowed_tools(allowed, [n \in exec_tools |-> n])
       IN /\ MissingTools(allowed, filtered) # {}
          /\ exec_result' = Some([success |-> FALSE,
                                  confirmation |-> "Missing required tools",
                                  missing |-> MissingTools(allowed, filtered),
                                  errors |-> Cardinality(MissingTools(allowed, filtered)),
                                  files_created |-> 0, execution_steps |-> 0])
    /\ exec_pc' = "done"
    /\ UNCHANGED <<exec_skill, exec_tools, execution_steps, exec_errors,
                   files_saved, unearned_file, tool_executed, model_calls>>
    /\ OnlyExec

\* variant: the loop is entered whatever tools are missing
ExecBegin_Unchecked ==
    /\ exec_pc = "start"
    /\ exec_skill # None
    /\ exec_pc' = "loop"
    /\ UNCHANGED <<exec_skill, exec_tools, execution_steps, exec_errors,
                   files_saved, unearned_file, tool_executed, model_calls,
                   exec_result>>
    /\ OnlyExec

\* the store of the execution and the LLMClient are created
ExecBegin ==
    /\ exec_pc = "start"
    /\ exec_skill # None
    /\ LET allowed == exec_skill[1].allowed_tools
           filtered == filter_allowed_tools(allowed, [n \in exec_tools |-> n])
       IN MissingTools(allowed, filtered) = {}
    /\ exec_pc' = "loop"
    /\ UNCHANGED <<exec_skill, exec_tools, execution_steps, exec_errors,
                   files_saved, unearned_file, tool_executed, model_calls,
                   exec_result>>
    /\ OnlyExec

\* variant: the loop goes on whatever the number of errors
ExecModelRaises_NoAbort ==
    /\ exec_pc = "loop"
    /\ Iterated(exec_errors + 1, files_saved, FALSE)
    /\ UNCHANGED <<unearned_file, tool_executed>>

\* llm.chat raises, or its answer cannot be read: one more error, and the
\* loop is abandoned at the third
ExecModelRaises ==
    /\ exec_pc = "loop"
    /\ Iterated(exec_errors + 1, files_saved, exec_errors + 1 >= MaxSkillErrors)
    /\ UNCHANGED <<unearned_file, tool_executed>>

\* the answer holds a completion indicator
ExecModelCompletes ==
    /\ exec_pc = "loop"
    /\ Iterated(exec_errors, files_saved, TRUE)
    /\ UNCHANGED <<unearned_file, tool_executed>>

\* the answer holds no completion indicator: its tool calls are executed
ExecModelActs ==
    /\ exec_pc = "loop"
    /\ LET allowed == exec_skill[1].allowed_tools
           filtered == DOMAIN filter_allowed_tools(allowed, [n \in exec_tools |-> n])
       IN \E cs \in ExtractedCalls(MaxResponseCalls, filtered) :
            /\ WellFormedCalls(cs, filtered)
            /\ LET rs == CallRecords(cs) IN
               /\ Iterated(exec_errors, files_saved + CountOf(rs, SavesFile), FALSE)
               /\ unearned_file' = (unearned_file \/ CountOf(rs, Unearned) > 0)
               /\ tool_executed' = (tool_executed \/ rs # <<>>)

InitExec ==
    /\ CtxIdle
    /\ ChainIdle
    /\ FilterIdle
    /\ RunIdle
    /\ ToolIdle
    /\ GateIdle
    /\ RetryIdle
    /\ ExceptExecIdle
    /\ exec_pc = "start"
    /\ exec_skill \in ExecSkills
    /\ exec_tools \in SUBSET ExecToolNames
    /\ execution_steps = 0
    /\ exec_errors = 0
    /\ files_saved = 0
    /\ unearned_file = FALSE
    /\ tool_executed = FALSE
    /\ model_calls = 0
    /\ exec_result = None

NextExec ==
    \/ ExecSkillNotFound
    \/ ExecMissingTools
    \/ ExecBegin
    \/ ExecModelRaises
    \/ ExecModelCompletes
    \/ ExecModelActs

SpecExec == InitExec /\ [][NextExec]_vars

\* every awaited model call and tool call returns or raises
SpecExecFair == InitExec /\ [][NextExec]_vars /\ WF_vars(NextExec)

-----------------------------------------------------------------------------
(* Properties of a skill execution, checked under SpecExec and SpecExecFair *)

\* the declared tools that were not supplied
NotSupplied ==
    IF exec_skill = None THEN {}
    ELSE {exec_skill[1].allowed_tools[i] : i \in DOMAIN exec_skill[1].allowed_tools}
         \ exec_tools

\* C28: when a tool the skill declares is not supplied, the execution makes
\* no model call and executes no tool, and the result it returns is a failure
\* that names exactly the missing tools.
C28_MissingToolsFailFirst ==
    NotSupplied # {} =>
        /\ model_calls = 0
        /\ ~tool_executed
        /\ exec_pc \in {"start", "done"}
        /\ exec_pc = "done" =>
              /\ ~exec_result[1].success
              /\ exec_result[1].missing = NotSupplied

\* a skill declaring file_write and file_read is given file_write only
C28_Witness ==
    /\ exec_pc = "done"
    /\ exec_tools = {"file_write"}
    /\ exec_result[1].missing = {"file_read"}

\* C29: an execution never makes more than 20 model calls, and it ends with
\* a result.
C29_BoundedAndReturns ==
    /\ [](model_calls <= 20)
    /\ [](exec_pc = "done" => exec_result # None)
    /\ <>(exec_pc = "done")

\* the twentieth model call was made and the execution returned
C29_Witness ==
    /\ exec_pc = "done"
    /\ model_calls = 20
    /\ exec_result[1].execution_steps = 20

\* C30: an execution that ran its loop reports success exactly when fewer
\* than 3 errors accumulated and at least one artifact was recorded, and every
\* artifact recorded comes from a file_write call whose result had status
\* success.
C30_SuccessNeedsEarnedArtifact ==
    (exec_pc = "done" /\ model_calls > 0) =>
        /\ exec_result[1].success <=> (exec_errors < 3 /\ files_saved >= 1)
        /\ ~unearned_file

\* nothing is asked of the model or of a tool once three errors are counted
NothingAfterThreeErrors ==
    exec_errors >= MaxSkillErrors =>
        /\ model_calls' = model_calls
        /\ tool_executed' = tool_executed
        /\ execution_steps' = execution_steps

\* C31: as soon as an execution has counted 3 errors its loop is left: the
\* count never passes 3, no model call and no tool call follows, and the
\* result returned is a failure that reports the 3 errors.
C31_ThreeErrorsStop ==
    /\ [](exec_errors <= 3)
    /\ [](exec_errors = 3 =>
            /\ exec_pc = "done"
            /\ ~exec_result[1].success
            /\ exec_result[1].errors = 3)
    /\ [][NothingAfterThreeErrors]_vars

\* three errors that were not consecutive: a tool ran between them
C31_Witness ==
    /\ exec_pc = "done"
    /\ exec_errors = 3
    /\ tool_executed
    /\ model_calls > 3
    /\ ~exec_result[1].success

\* C37: a skill whose disable_model_invocation is set is not executed on a
\* use_skill dispatch: no model call is made for it, no tool is executed, and
\* the result returned is a failure.
C37_DisabledSkillNotExecuted ==
    (exec_skill # None /\ exec_skill[1].disable_model_invocation) =>
        /\ model_calls = 0
        /\ ~tool_executed
        /\ exec_pc \in {"start", "done"}
        /\ exec_pc = "done" => ~exec_result[1].success

-----------------------------------------------------------------------------
(* LLMClient._extract_json (src/agentic/src/llm.py).  A text is a sequence *)
(* of lexical pieces:                                                      *)
(*   "{" "}"   a brace outside any string                                  *)
(*   "kv"      a member, as in  "a": 1                                     *)
(*   "k:"      a key and its colon, before a nested object                 *)
(*   "s<" "fence" "}s"   a member whose string value holds three backticks *)
(*             followed by a closing brace, as in  "a": "``` }" : the part *)
(*             before the backticks, the backticks, the part after them    *)
(*   "fence"   three backticks                                             *)
(*   "json"    the language tag after an opening fence                     *)
(*   "ws"      white space                                                 *)
(*   "txt"     prose without brace or backtick                             *)
(* The length of a span is counted in pieces.                              *)

RECURSIVE StripLeft(_)
StripLeft(t) ==
    IF t # <<>> /\ Head(t) = "ws" THEN StripLeft(Tail(t)) ELSE t

RECURSIVE StripRight(_)
StripRight(t) ==
    IF t # <<>> /\ t[Len(t)] = "ws" THEN StripRight(SubSeq(t, 1, Len(t) - 1)) ELSE t

\* str.strip()
Strip(t) == StripRight(StripLeft(t))

IsNotWs(x) == x # "ws"

\* the value a text denotes when it is JSON: its pieces less the white space
Canon(t) == SelectSeq(t, IsNotWs)

\* whether the pieces, white space removed, are one JSON object
RECURSIVE IsObject(_)
IsObject(t) ==
    /\ Len(t) >= 2
    /\ t[1] = "{"
    /\ t[Len(t)] = "}"
    /\ LET inner == SubSeq(t, 2, Len(t) - 1) IN
       \/ inner = <<>>
       \/ inner = <<"kv">>
       \/ inner = <<"s<", "fence", "}s">>
       \/ Len(inner) >= 3 /\ inner[1] = "k:" /\ IsObject(Tail(inner))

\* json.loads(text) does not raise
Parses(t) == IsObject(Canon(t))

\* re.search(r'```(?:json)?\s*([\s\S]*?)```', text): group(1) of the first
\* match, None when there is no match
FencedGroup(t) ==
    LET closers(i) ==
            {j \in DOMAIN t : t[j] = "fence"
                /\ j > (IF i < Len(t) /\ t[i + 1] = "json" THEN i + 1 ELSE i)}
        openers == {i \in DOMAIN t : t[i] = "fence" /\ closers(i) # {}}
    IN IF openers = {} THEN None
       ELSE LET i == CHOOSE x \in openers : \A y \in openers : x <= y
                a == IF t[i + 1] = "json" THEN i + 2 ELSE i + 1
                j == CHOOSE x \in closers(i) : \A y \in closers(i) : x <= y
            IN Some(StripLeft(SubSeq(t, a, j - 1)))

\* the scan for balanced braces: the spans from an opening brace to the
\* brace that empties the stack, in order of their end
RECURSIVE BraceSpans(_, _, _, _)
BraceSpans(t, i, brace_stack, candidates) ==
    IF i > Len(t) THEN candidates
    ELSE IF t[i] = "{"
    THEN BraceSpans(t, i + 1, Append(brace_stack, i), candidates)
    ELSE IF t[i] \in {"}", "}s"} /\ brace_stack # <<>>
    THEN LET start == brace_stack[Len(brace_stack)]
             rest == SubSeq(brace_stack, 1, Len(brace_stack) - 1)
         IN BraceSpans(t, i + 1, rest,
                       IF rest = <<>>
                       THEN Append(candidates, SubSeq(t, start, i))
                       ELSE candidates)
    ELSE BraceSpans(t, i + 1, brace_stack, candidates)

Candidates(t) == BraceSpans(t, 1, <<>>, <<>>)

\* candidates.sort(key=len, reverse=True), then the first that parses: the
\* longest parsing candidate, the earliest of them when several are as long
LongestParsing(cs) ==
    LET ok == {k \in DOMAIN cs : Parses(cs[k])} IN
    IF ok = {} THEN None
    ELSE Some(cs[CHOOSE k \in ok :
                    \A m \in ok : \/ Len(cs[k]) > Len(cs[m])
                                  \/ Len(cs[k]) = Len(cs[m]) /\ k <= m])

JsonReturned(text, strategy) ==
    [status |-> "returned", text |-> text, strategy |-> strategy]

JsonRaised(message) ==
    [status |-> "raised", text |-> <<>>, strategy |-> message]

\* _extract_json(text)
ExtractJson(t) ==
    IF t = <<>> THEN JsonRaised("Empty text")
    ELSE IF Parses(t) THEN JsonReturned(t, "direct")
    ELSE IF FencedGroup(t) # None /\ Parses(FencedGroup(t)[1])
    THEN JsonReturned(Strip(FencedGroup(t)[1]), "fenced")
    ELSE IF LongestParsing(Candidates(t)) # None
    THEN JsonReturned(LongestParsing(Candidates(t))[1], "braces")
    ELSE JsonRaised("No valid JSON found")

OnlyJson == UNCHANGED exceptJsonVars

Extracted ==
    /\ json_result' = Some(ExtractJson(json_text))
    /\ json_pc' = "done"
    /\ UNCHANGED json_text
    /\ OnlyJson

\* the text parses as it is
ExtractDirect ==
    /\ json_pc = "ready"
    /\ ExtractJson(json_text).strategy = "direct"
    /\ Extracted

\* the content of the fenced block parses
ExtractFenced ==
    /\ json_pc = "ready"
    /\ ExtractJson(json_text).strategy = "fenced"
    /\ Extracted

\* a balanced brace span parses
ExtractBraces ==
    /\ json_pc = "ready"
    /\ ExtractJson(json_text).strategy = "braces"
    /\ Extracted

\* the text is empty: ValueError("Empty text")
ExtractEmpty ==
    /\ json_pc = "ready"
    /\ json_text = <<>>
    /\ Extracted

\* nothing parses: ValueError("No valid JSON found")
ExtractNothing ==
    /\ json_pc = "ready"
    /\ ExtractJson(json_text).strategy = "No valid JSON found"
    /\ Extracted

\* the objects and the fragments a model answer is made of
JsonObjects ==
    { <<"{", "}">>,
      <<"{", "kv", "}">>,
      <<"{", "ws", "kv", "ws", "}">>,
      <<"{", "k:", "{", "kv", "}", "}">>,
      <<"{", "s<", "fence", "}s", "}">> }

JsonFragments ==
    { <<>>, <<"ws">>, <<"txt">>, <<"}">>, <<"{", "kv">>, <<"{", "txt", "}">> }

JsonPieces == JsonObjects \cup JsonFragments

\* a fenced block around a body, tagged json or not
Fenced(tagged, body) ==
    <<"fence">> \o (IF tagged THEN <<"json">> ELSE <<>>) \o <<"ws">>
    \o body \o <<"ws", "fence">>

JsonTexts ==
    {pre \o mid \o post :
        pre \in JsonPieces, post \in JsonPieces,
        mid \in JsonPieces
                \cup {Fenced(tg, b) : tg \in BOOLEAN, b \in JsonPieces}}

InitJson ==
    /\ CtxIdle
    /\ ChainIdle
    /\ FilterIdle
    /\ RunIdle
    /\ ToolIdle
    /\ GateIdle
    /\ RetryIdle
    /\ ExceptJsonIdle
    /\ json_pc = "ready"
    /\ json_text \in JsonTexts
    /\ json_result = None

NextJson ==
    \/ ExtractDirect
    \/ ExtractFenced
    \/ ExtractBraces
    \/ ExtractEmpty
    \/ ExtractNothing

SpecJson == InitJson /\ [][NextJson]_vars

-----------------------------------------------------------------------------
(* Properties of _extract_json, checked under SpecJson *)

\* the text is a fenced json block wrapping a valid object, and nothing else
IsFencedObject(t) ==
    /\ Len(t) >= 7
    /\ SubSeq(t, 1, 3) = <<"fence", "json", "ws">>
    /\ SubSeq(t, Len(t) - 1, Len(t)) = <<"ws", "fence">>
    /\ IsObject(Canon(SubSeq(t, 4, Len(t) - 2)))

\* C22: what _extract_json returns parses as JSON; a text that parses is
\* returned as it is; otherwise the content of the fenced block is returned
\* when it parses; otherwise the longest balanced brace span that parses; an
\* error is raised only when none of the three gives JSON; and for a fenced
\* json block wrapping a valid object the text returned denotes that object.
C22_ExtractsJson ==
    json_pc = "done" =>
        LET r == json_result[1]
            group == FencedGroup(json_text)
            spans == Candidates(json_text)
        IN /\ r.status = "returned" => Parses(r.text)
           /\ Parses(json_text) => r = JsonReturned(json_text, "direct")
           /\ r.strategy = "fenced" => ~Parses(json_text)
           /\ r.strategy = "braces" =>
                 /\ ~Parses(json_text)
                 /\ group = None \/ ~Parses(group[1])
                 /\ \A k \in DOMAIN spans :
                       Parses(spans[k]) => Len(spans[k]) <= Len(r.text)
           /\ r.status = "raised" =>
                 /\ ~Parses(json_text)
                 /\ group = None \/ ~Parses(group[1])
                 /\ \A k \in DOMAIN spans : ~Parses(spans[k])
           /\ IsFencedObject(json_text) =>
                 /\ r.status = "returned"
                 /\ Canon(r.text) = Canon(SubSeq(json_text, 4, Len(json_text) - 2))

-----------------------------------------------------------------------------
(* SkillManager._execute_skill_tools (src/src/skills/manager.py; the same  *)
(* code is SkillSubAgent._execute_skill_tools): the tool calls recognized  *)
(* in one response and executed.  A response is a sequence of phrases:     *)
(*   "calling_paren"   Calling X(                                          *)
(*   "use_with"        Use X with                                          *)
(*   "execute"         Execute X                                           *)
(*   "calling_the"     Calling the X tool                                  *)
(*   "bare_paren"      X(                                                  *)
(*   "prose"           text that names X and is no call                    *)

\* phrases in a response
MaxPhrases == 2

\* tool_patterns, in order
ToolPatterns == <<"calling_paren", "use_with", "execute", "calling_the",
                  "file_write_or_search_google_paren">>

PhraseForms == {"calling_paren", "use_with", "execute", "calling_the",
                "bare_paren", "prose"}

XtToolNames == {"file_write", "file_read"}

Phrases == [form : PhraseForms, tool : XtToolNames]

\* re.finditer(pattern, response, re.IGNORECASE) finds a match in the phrase
PatternMatches(pattern, phrase) ==
    IF pattern = "file_write_or_search_google_paren"
    THEN /\ phrase.form \in {"calling_paren", "bare_paren"}
         /\ phrase.tool \in {"file_write", "search_google"}
    ELSE phrase.form = pattern

\* the names the matches of one pattern capture, in the order of the text
RECURSIVE FindIter(_, _)
FindIter(pattern, response) ==
    IF response = <<>> THEN <<>>
    ELSE (IF PatternMatches(pattern, Head(response))
          THEN <<Head(response).tool>> ELSE <<>>)
         \o FindIter(pattern, Tail(response))

\* for match in matches: ... break -- the loop over the matches of a pattern
\* is left after its first match
ProcessedMatches(matches) ==
    IF matches = <<>> THEN <<>> ELSE <<Head(matches)>>

\* for pattern in tool_patterns: the names processed, pattern after pattern
RECURSIVE ProcessedNames(_, _)
ProcessedNames(patterns, response) ==
    IF patterns = <<>> THEN <<>>
    ELSE ProcessedMatches(FindIter(Head(patterns), response))
         \o ProcessedNames(Tail(patterns), response)

\* if tool_name in tools: the calls whose tool is executed
RECURSIVE AvailableCalls(_, _)
AvailableCalls(names, tools) ==
    IF names = <<>> THEN <<>>
    ELSE (IF Head(names) \in tools THEN <<Head(names)>> ELSE <<>>)
         \o AvailableCalls(Tail(names), tools)

\* what the executions do, one outcome for each call
RECURSIVE OutcomesOf(_)
OutcomesOf(names) ==
    IF names = <<>> THEN {<<>>}
    ELSE {<<[tool_name |-> Head(names), outcome |-> o]>> \o rest :
             o \in {"success", "failed", "raises"},
             rest \in OutcomesOf(Tail(names))}

RecordsOf(cs) == [i \in DOMAIN cs |-> CallRecord(cs[i])]

OnlyXt == UNCHANGED exceptXtVars

\* _execute_skill_tools returns the records of the calls it executed
XtReturned(cs) ==
    /\ xt_pc' = "returned"
    /\ xt_tool_calls' = RecordsOf(cs)
    /\ UNCHANGED <<xt_response, xt_tools>>
    /\ OnlyXt

\* no pattern matches, or no tool named is available
XtNothingExecuted ==
    /\ xt_pc = "ready"
    /\ AvailableCalls(ProcessedNames(ToolPatterns, xt_response), xt_tools) = <<>>
    /\ XtReturned(<<>>)

\* the tools of the processed matches are executed
XtToolsExecuted ==
    /\ xt_pc = "ready"
    /\ LET names == AvailableCalls(ProcessedNames(ToolPatterns, xt_response),
                                   xt_tools)
       IN /\ names # <<>>
          /\ \E cs \in OutcomesOf(names) : XtReturned(cs)

RECURSIVE Responses(_)
Responses(n) ==
    IF n = 0 THEN {<<>>}
    ELSE Responses(n - 1) \cup
         {Append(r, ph) : r \in Responses(n - 1), ph \in Phrases}

InitXt ==
    /\ CtxIdle
    /\ ChainIdle
    /\ FilterIdle
    /\ RunIdle
    /\ ToolIdle
    /\ GateIdle
    /\ RetryIdle
    /\ ExceptXtIdle
    /\ xt_pc = "ready"
    /\ xt_response \in Responses(MaxPhrases)
    /\ xt_tools \in SUBSET XtToolNames
    /\ xt_tool_calls = <<>>

NextXt ==
    \/ XtNothingExecuted
    \/ XtToolsExecuted

SpecXt == InitXt /\ [][NextXt]_vars

-----------------------------------------------------------------------------
(* Properties of the recognizer, checked under SpecXt *)

\* C32: at most one tool call is recognized in a response and executed,
\* whatever the number of patterns the response matches.
C32_OneCallPerResponse ==
    xt_pc = "returned" => Len(xt_tool_calls) <= 1

-----------------------------------------------------------------------------
(* StreamManager.stream_agent_run and think_stream                         *)
(* (src/agentic/src/stream_manager.py): one run, with abort() called from  *)
(* outside at any of its suspension points.                                *)

\* max_steps of the run
StMaxSteps == 2
\* chunks of one streamed answer
MaxChunks == 2

\* a chunk carries a piece of the answer, or no content (a role or
\* finish_reason delta)
ChunkKinds == {"content", "empty"}

RECURSIVE ChunkSeqs(_)
ChunkSeqs(n) ==
    IF n = 0 THEN {<<>>}
    ELSE ChunkSeqs(n - 1) \cup
         {Append(cs, k) : cs \in ChunkSeqs(n - 1), k \in ChunkKinds}

\* next_action of the Thought a complete answer parses to
StDecisions == {"finish", "respond_to_user", "think", "use_tool"}

\* the answers of the model: the whole text parses to a Thought or does not
ModelAnswers ==
    [chunks : ChunkSeqs(MaxChunks), valid : BOOLEAN, next_action : StDecisions]

\* the chunks that carry content
RECURSIVE ContentOf(_)
ContentOf(chunks) ==
    IF chunks = <<>> THEN <<>>
    ELSE (IF Head(chunks) = "content" THEN <<Head(chunks)>> ELSE <<>>)
         \o ContentOf(Tail(chunks))

\* full_content holds the whole answer
WholeAnswer(call) == call.full_content = ContentOf(call.answer.chunks)

\* _extract_json, json.loads and Thought.model_validate succeed on
\* full_content
ParsesToThought(call) == call.answer.valid /\ WholeAnswer(call)

OnlySt == UNCHANGED exceptStVars

\* abort() is called while the run is in progress
StAbort ==
    /\ st_pc \in {"iteration", "streaming", "executing"}
    /\ ~st_abort
    /\ st_abort' = TRUE
    /\ UNCHANGED <<st_pc, st_step, st_call, st_cut, st_outcome>>
    /\ OnlySt

\* if self._abort: return "Task aborted by user"
StIterationAborted ==
    /\ st_pc = "iteration"
    /\ st_step < StMaxSteps
    /\ st_abort
    /\ st_pc' = "returned"
    /\ st_outcome' = Some("Task aborted by user")
    /\ UNCHANGED <<st_abort, st_step, st_call, st_cut>>
    /\ OnlySt

\* the iteration goes on: think_stream opens the stream of a model call
StThinkBegins ==
    /\ st_pc = "iteration"
    /\ st_step < StMaxSteps
    /\ ~st_abort
    /\ st_pc' = "streaming"
    /\ \E answer \in ModelAnswers :
          st_call' = Some([answer |-> answer, to_come |-> answer.chunks,
                           full_content |-> <<>>])
    /\ UNCHANGED <<st_abort, st_step, st_cut, st_outcome>>
    /\ OnlySt

\* the for loop is over
StMaxStepsReached ==
    /\ st_pc = "iteration"
    /\ st_step = StMaxSteps
    /\ st_pc' = "returned"
    /\ st_outcome' = Some("Maximum steps reached. Task incomplete.")
    /\ UNCHANGED <<st_abort, st_step, st_call, st_cut>>
    /\ OnlySt

\* async for chunk in stream, the flag not set: the chunk is taken
StChunk ==
    /\ st_pc = "streaming"
    /\ st_call[1].to_come # <<>>
    /\ ~st_abort
    /\ st_call' = Some([st_call[1] EXCEPT
                          !.to_come = Tail(@),
                          !.full_content = @ \o ContentOf(<<Head(st_call[1].to_come)>>)])
    /\ UNCHANGED <<st_pc, st_abort, st_step, st_cut, st_outcome>>
    /\ OnlySt

\* what follows the loop over the chunks: full_content is parsed; think_stream
\* raises when that fails, and stream_agent_run with it; otherwise the Thought
\* is acted upon
StThought(call) ==
    /\ st_call' = Some(call)
    /\ IF ~ParsesToThought(call)
       THEN /\ st_pc' = "raised"
            /\ st_outcome' = Some("Thinking failed")
            /\ st_step' = st_step
       ELSE CASE call.answer.next_action \in {"finish", "respond_to_user"} ->
                    /\ st_pc' = "returned"
                    /\ st_outcome' = Some("reasoning")
                    /\ st_step' = st_step
              [] call.answer.next_action = "think" ->
                    /\ st_pc' = "iteration"
                    /\ st_outcome' = st_outcome
                    /\ st_step' = st_step + 1
              [] OTHER ->
                    /\ st_pc' = "executing"
                    /\ st_outcome' = st_outcome
                    /\ st_step' = st_step
    /\ UNCHANGED st_abort
    /\ OnlySt

\* async for chunk in stream, the flag set: break
StThinkCut ==
    /\ st_pc = "streaming"
    /\ st_call[1].to_come # <<>>
    /\ st_abort
    /\ st_cut' = TRUE
    /\ StThought(st_call[1])

\* the stream is exhausted
StThinkEnds ==
    /\ st_pc = "streaming"
    /\ st_call[1].to_come = <<>>
    /\ st_cut' = st_cut
    /\ StThought(st_call[1])

\* execute_subagent returns or raises: the next iteration
StExecuted ==
    /\ st_pc = "executing"
    /\ st_pc' = "iteration"
    /\ st_step' = st_step + 1
    /\ UNCHANGED <<st_abort, st_call, st_cut, st_outcome>>
    /\ OnlySt

\* a StreamManager is constructed and its stream_agent_run has reached the loop
InitSt ==
    /\ CtxIdle
    /\ ChainIdle
    /\ FilterIdle
    /\ RunIdle
    /\ ToolIdle
    /\ GateIdle
    /\ RetryIdle
    /\ ExceptStIdle
    /\ st_pc = "iteration"
    /\ st_abort = FALSE
    /\ st_step = 0
    /\ st_call = None
    /\ st_cut = FALSE
    /\ st_outcome = None

NextSt ==
    \/ StAbort
    \/ StIterationAborted
    \/ StThinkBegins
    \/ StMaxStepsReached
    \/ StChunk
    \/ StThinkCut
    \/ StThinkEnds
    \/ StExecuted

SpecSt == InitSt /\ [][NextSt]_vars

-----------------------------------------------------------------------------
(* Properties of the abort signal, checked under SpecSt *)

\* the flag is set when an iteration starts: the run returns the aborted
\* outcome
AbortedAtIterationStart ==
    (st_abort /\ st_pc = "iteration" /\ st_step < StMaxSteps) =>
        /\ st_pc' = "returned"
        /\ st_outcome' = Some("Task aborted by user")

\* C33: the abort signal acts at the start of an iteration only: the run then
\* returns the aborted outcome, and a model call in flight when the signal is
\* set receives its whole stream, so that the run never fails for a reason
\* the answer of the model does not give.
C33_AbortAtIterationStartOnly ==
    /\ [][AbortedAtIterationStart]_vars
    /\ [](~st_cut)
    /\ [](st_pc = "raised" => ~st_call[1].answer.valid)

-----------------------------------------------------------------------------
(* Properties of the persistence of a run, checked under SpecRunQuick *)

\* the session file holds the live log
PersistedIsLive == session_file.exists /\ session_file.entries = entries

\* a save that is skipped writes nothing and leaves the dirty flag set
SkippedSaveKeepsDirty ==
    skipped' > skipped => (dirty' /\ session_file' = session_file)

\* C34: the log is force-saved at session creation and before every handoff
\* to a SubAgent, so that the session file holds the live log at each
\* dispatch; a save made within min_save_interval of the save before is
\* skipped and leaves the dirty flag set.
C34_SavedAtCheckpoints ==
    /\ [](run_pc = "request" => PersistedIsLive)
    /\ [](run_pc = "execute" => PersistedIsLive)
    /\ [][SkippedSaveKeepsDirty]_vars

-----------------------------------------------------------------------------
(* Properties of a failed dispatch, checked under SpecRun *)

\* execute_subagent returns a failed result: one entry more, typed error,
\* and the loop goes to its next step
FailedResultLogged ==
    (run_pc = "execute" /\ run_pc' = "loop") =>
        /\ Len(entries') = Len(entries) + 1
        /\ SubSeq(entries', 1, Len(entries)) = entries
        /\ entries'[Len(entries')].entry_type = "error"
        /\ step' = step + 1

\* C35: when a SubAgent returns a failed result the orchestrator appends
\* exactly one entry to its log, of entry type error, and goes on with the
\* next step.
C35_FailureLoggedAsError == [][FailedResultLogged]_vars

-----------------------------------------------------------------------------
(* Properties of the entries kept by a compression, checked under SpecCtx *)

Occurrences(e, es) == Cardinality({i \in DOMAIN es : es[i] = e})

\* a can be obtained from b by deleting entries
RECURSIVE IsSubsequence(_, _)
IsSubsequence(a, b) ==
    IF a = <<>> THEN TRUE
    ELSE IF b = <<>> THEN FALSE
    ELSE IF Head(a) = Head(b) THEN IsSubsequence(Tail(a), Tail(b))
    ELSE IsSubsequence(a, Tail(b))

\* C36: whatever appends and compressions were made, every entry appended
\* occurs at most once in the live log, and the live log left by a
\* compress_if_needed is a subsequence of the live log before it.
C36_NoDuplicates ==
    /\ \A e \in appended : Occurrences(e, entries) <= 1
    /\ lastOp = "compress_if_needed" => IsSubsequence(entries, prevEntries)


-----------------------------------------------------------------------------
(* The request in the snapshot handed to a SubAgent (src/src/context.py    *)
(* get_snapshot, src/src/agent.py execute_subagent), checked under         *)
(* SpecRunLong                                                             *)

\* get_snapshot: the content of the last entry with role "user" and
\* entry_type "message", "" when the log holds none
RECURSIVE SnapshotUserRequest(_)
SnapshotUserRequest(es) ==
    IF es = <<>> THEN ""
    ELSE LET e == es[Len(es)] IN
         IF e.role = "user" /\ e.entry_type = "message" THEN e.content
         ELSE SnapshotUserRequest(SubSeq(es, 1, Len(es) - 1))

\* C38: at every dispatch of a run the user_request of the snapshot that
\* execute_subagent takes equals the request passed to run, whatever was
\* appended to the log or removed from it by compression before
C38_SnapshotHoldsRequest ==
    run_pc = "execute" => SnapshotUserRequest(entries) = UserRequest


-----------------------------------------------------------------------------
(* Runs started from WebSocket connections that share one agent            *)
(* (src/agentic/src/web_server.py websocket_endpoint,                      *)
(* src/agentic/src/stream_manager.py stream_agent_run).  Connections       *)
(* opened with the same session id get the same MinimalAgent from          *)
(* get_or_create_agent; each handler is a coroutine of one event loop, so  *)
(* an action is the code of a handler from one await to the next.  The     *)
(* entries are short: the log stays under its ceiling.                     *)

\* the connections opened with one session id
Conns == {1, 2}

\* the runs started on the agent
WsMaxRuns == 2

\* max_steps of a run
WsMaxSteps == 2

WsDecisions == {"finish", "think", "respond_to_user", "dispatch"}

\* an entry of a log: the run that appended it, named by the store that run
\* created, and what it is
WsEntry(c, kind) == [run |-> ws_own[c], kind |-> kind]

\* self.entries.append(entry) on the store agent.context refers to
WsAppended(stores, es) ==
    [stores EXCEPT ![ws_context] = stores[ws_context] \o es]

OnlyWs == UNCHANGED exceptWsVars

\* websocket_endpoint receives a user_message and calls stream_agent_run,
\* which runs up to its first await (send_event "user_message")
WsReceive(c) ==
    /\ ws_pc[c] \in {"idle", "returned"}
    /\ Len(ws_stores) + Cardinality({d \in Conns : ws_pc[d] = "create"})
           < WsMaxRuns
    /\ ws_pc' = [ws_pc EXCEPT ![c] = "create"]
    /\ UNCHANGED <<ws_context, ws_stores, ws_own, ws_step, ws_reads>>
    /\ OnlyWs

\* agent.context = ContextManager(...), add_system_prompt, save,
\* add_user_request, set_goals, up to the await of send_event "agent_info"
WsCreate(c) ==
    /\ ws_pc[c] = "create"
    /\ LET id == Len(ws_stores) + 1 IN
          /\ ws_context' = id
          /\ ws_own' = [ws_own EXCEPT ![c] = id]
          /\ ws_stores' = Append(ws_stores,
                                 <<[run |-> id, kind |-> "system"],
                                   [run |-> id, kind |-> "request"]>>)
    /\ ws_step' = [ws_step EXCEPT ![c] = 0]
    /\ ws_pc' = [ws_pc EXCEPT ![c] = "loop"]
    /\ UNCHANGED ws_reads
    /\ OnlyWs

\* head of an iteration: compress_if_needed, then think_stream reads
\* agent.context.get_messages and awaits the model
WsThinkBegins(c) ==
    /\ ws_pc[c] = "loop"
    /\ ws_step[c] < WsMaxSteps
    /\ ws_reads' = ws_reads \cup {[run |-> ws_own[c], store |-> ws_context]}
    /\ ws_pc' = [ws_pc EXCEPT ![c] = "think"]
    /\ UNCHANGED <<ws_context, ws_stores, ws_own, ws_step>>
    /\ OnlyWs

\* range(max_steps) is exhausted
WsMaxStepsReached(c) ==
    /\ ws_pc[c] = "loop"
    /\ ws_step[c] >= WsMaxSteps
    /\ ws_pc' = [ws_pc EXCEPT ![c] = "returned"]
    /\ UNCHANGED <<ws_context, ws_stores, ws_own, ws_step, ws_reads>>
    /\ OnlyWs

\* think_stream returned a Thought: agent.context.add_thought, then the
\* branch of the decision up to its await
WsThought(c) ==
    /\ ws_pc[c] = "think"
    /\ \E d \in WsDecisions :
          /\ ws_stores' =
                 WsAppended(ws_stores,
                            IF d \in {"finish", "respond_to_user"}
                            THEN <<WsEntry(c, "thought"),
                                   WsEntry(c, "response")>>
                            ELSE <<WsEntry(c, "thought")>>)
          /\ ws_pc' = [ws_pc EXCEPT ![c] =
                          IF d \in {"finish", "respond_to_user"}
                          THEN "returned"
                          ELSE IF d = "think" THEN "loop" ELSE "execute"]
          /\ ws_step' = [ws_step EXCEPT ![c] =
                            IF d = "think" THEN @ + 1 ELSE @]
    /\ UNCHANGED <<ws_context, ws_own, ws_reads>>
    /\ OnlyWs

\* think_stream raised: the exception leaves stream_agent_run
WsThinkRaises(c) ==
    /\ ws_pc[c] = "think"
    /\ ws_pc' = [ws_pc EXCEPT ![c] = "raised"]
    /\ UNCHANGED <<ws_context, ws_stores, ws_own, ws_step, ws_reads>>
    /\ OnlyWs

\* execute_subagent returned or raised: the result, the failure or the
\* exception is logged with agent.context.add_assistant_response
WsExecuted(c) ==
    /\ ws_pc[c] = "execute"
    /\ ws_stores' = WsAppended(ws_stores, <<WsEntry(c, "result")>>)
    /\ ws_step' = [ws_step EXCEPT ![c] = @ + 1]
    /\ ws_pc' = [ws_pc EXCEPT ![c] = "loop"]
    /\ UNCHANGED <<ws_context, ws_own, ws_reads>>
    /\ OnlyWs

InitWs ==
    /\ CtxIdle
    /\ ChainIdle
    /\ FilterIdle
    /\ RunIdle
    /\ ToolIdle
    /\ GateIdle
    /\ RetryIdle
    /\ ExceptWsIdle
    /\ ws_pc = [c \in Conns |-> "idle"]
    /\ ws_context = 0
    /\ ws_stores = <<>>
    /\ ws_own = [c \in Conns |-> 0]
    /\ ws_step = [c \in Conns |-> 0]
    /\ ws_reads = {}

NextWs ==
    \E c \in Conns :
        \/ WsReceive(c)
        \/ WsCreate(c)
        \/ WsThinkBegins(c)
        \/ WsMaxStepsReached(c)
        \/ WsThought(c)
        \/ WsThinkRaises(c)
        \/ WsExecuted(c)

SpecWs == InitWs /\ [][NextWs]_vars

\* C39: with two runs in progress at once on one agent, every entry a run
\* appends is in the store that run created, and every THINK of a run reads
\* that run's store
C39_RunsKeepToOwnStore ==
    /\ \A i \in DOMAIN ws_stores :
          \A j \in DOMAIN ws_stores[i] : ws_stores[i][j].run = i
    /\ \A r \in ws_reads : r.store = r.run

====
